---- MODULE Spec2Model ----
(***************************************************************************)
(* Placement engine of setup_scene.py: choose_vertex_and_length_for_port,  *)
(* choose_face_and_length_for_label, and the port/label loop of            *)
(* build_scene_from_manifest with its per-boundary used-vertex sets.       *)
(*                                                                         *)
(* Blender's world_to_camera_view and BVHTree.ray_cast are library calls:  *)
(* a scene gives, for every attach site, the camera view of its base point *)
(* (ndc), the camera view of its unit direction (step) and the outcome of  *)
(* the ray test (vis).  Coordinates are integers: NDC in units of          *)
(* 1/NdcDen, lengths in whole world units, scores in units of 1/20 px.     *)
(***************************************************************************)
EXTENDS Integers, Sequences, FiniteSets, TLC

\* ---- bounds of the model
NV == 3
NF == 2
MaxObjects == 3

\* ---- units
NdcDen == 10
W == 20
H == 20

Max2(a, b) == IF a >= b THEN a ELSE b
Min2(a, b) == IF a <= b THEN a ELSE b

\* floor of the square root (Vector.length / math.sqrt on integer squares)
ISqrt(n) == CHOOSE r \in 0..(n + 1) : r * r <= n /\ (r + 1) * (r + 1) > n

Dist(p, q) == ISqrt((p[1] - q[1]) * (p[1] - q[1]) + (p[2] - q[2]) * (p[2] - q[2]))

\* an Optional value is a set with at most one element
Val(s) == CHOOSE x \in s : TRUE

\* ---- projection helpers
ndc_in_frame(ndc) ==
    /\ 0 <= ndc[1] /\ ndc[1] <= NdcDen
    /\ 0 <= ndc[2] /\ ndc[2] <= NdcDen
    /\ ndc[3] >= 0

ndc_to_px(ndc) == << (ndc[1] * W) \div NdcDen, (ndc[2] * H) \div NdcDen >>

SetMin(S) == CHOOSE x \in S : \A y \in S : x <= y
SetMax(S) == CHOOSE x \in S : \A y \in S : x >= y

\* bbox = <<minx, maxx, miny, maxy>> of the vertices in front of the camera
projected_bbox_px(verts) ==
    LET pxs == { ndc_to_px(verts[k].ndc) : k \in { j \in 1..Len(verts) : verts[j].ndc[3] >= 0 } }
    IN  IF pxs = {} THEN << 0, 0, 0, 0 >>
        ELSE << SetMin({ p[1] : p \in pxs }), SetMax({ p[1] : p \in pxs }),
                SetMin({ p[2] : p \in pxs }), SetMax({ p[2] : p \in pxs }) >>

ExpandBbox(bbox, m) == << bbox[1] - m, bbox[2] + m, bbox[3] - m, bbox[4] + m >>

\* mutant of outside_distance_to_bbox_px: no depth inside the box
outside_distance_to_bbox_px_FlatInside(p, bbox) ==
    LET dx == IF p[1] < bbox[1] THEN bbox[1] - p[1] ELSE IF p[1] > bbox[2] THEN p[1] - bbox[2] ELSE 0
        dy == IF p[2] < bbox[3] THEN bbox[3] - p[2] ELSE IF p[2] > bbox[4] THEN p[2] - bbox[4] ELSE 0
    IN  IF dx = 0 /\ dy = 0 THEN 0 ELSE ISqrt(dx * dx + dy * dy)

outside_distance_to_bbox_px(p, bbox) ==
    LET minx == bbox[1]
        maxx == bbox[2]
        miny == bbox[3]
        maxy == bbox[4]
        dx == IF p[1] < minx THEN minx - p[1] ELSE IF p[1] > maxx THEN p[1] - maxx ELSE 0
        dy == IF p[2] < miny THEN miny - p[2] ELSE IF p[2] > maxy THEN p[2] - maxy ELSE 0
    IN  IF dx = 0 /\ dy = 0
        THEN 0 - Min2(Min2(p[1] - minx, maxx - p[1]), Min2(p[2] - miny, maxy - p[2]))
        ELSE ISqrt(dx * dx + dy * dy)

\* mutant of TipInMargins: the margin is applied to the x axis only
TipInMargins_XOnly(tip_ndc, tip_margin_px) ==
    /\ tip_margin_px * NdcDen <= tip_ndc[1] * Max2(1, W)
    /\ tip_ndc[1] * Max2(1, W) <= NdcDen * Max2(1, W) - tip_margin_px * NdcDen
    /\ tip_ndc[3] >= 0

\* mx <= tip_ndc.x <= 1 - mx and my <= tip_ndc.y <= 1 - my and tip_ndc.z >= 0,
\* with mx = tip_margin_px / max(1, W), my = tip_margin_px / max(1, H)
TipInMargins(tip_ndc, tip_margin_px) ==
    /\ tip_margin_px * NdcDen <= tip_ndc[1] * Max2(1, W)
    /\ tip_ndc[1] * Max2(1, W) <= NdcDen * Max2(1, W) - tip_margin_px * NdcDen
    /\ tip_margin_px * NdcDen <= tip_ndc[2] * Max2(1, H)
    /\ tip_ndc[2] * Max2(1, H) <= NdcDen * Max2(1, H) - tip_margin_px * NdcDen
    /\ tip_ndc[3] >= 0

\* camera view of base_w + dir_w * ext (the view is linear along a ray)
TipNdc(base, step, ext) ==
    << base[1] + ext * step[1], base[2] + ext * step[2], base[3] + ext * step[3] >>

Neg(v) == << 0 - v[1], 0 - v[2], 0 - v[3] >>

\* 20 * (out_term + 0.25 * silhouette + 0.10 * seglen), port form of out_term
OutTermPort(outd) == IF outd >= 0 THEN 20 * outd ELSE 30 * outd

Score20(out_term20, silhouette, seglen) == out_term20 + 5 * silhouette + 2 * seglen

\* ---- length sampling: L = L_min + t * (L_max - L_min), t = s / (length_samples - 1)
LMaxOf(spec) == IF spec.length_max < spec.length_min THEN spec.length_min ELSE spec.length_max

\* mutant of SampleLength: t = s / length_samples, the last sample stops short
SampleLength_OpenEnd(spec, s) ==
    IF spec.length_samples <= 1 THEN spec.length_min
    ELSE spec.length_min + (s * (LMaxOf(spec) - spec.length_min)) \div spec.length_samples

SampleLength(spec, s) ==
    IF spec.length_samples <= 1 THEN spec.length_min
    ELSE spec.length_min + (s * (LMaxOf(spec) - spec.length_min)) \div (spec.length_samples - 1)

IsFixedLength(spec) == spec.length # {}

\* ---- placements
Placement(i, base, dir, L, tip) == [index |-> i, base |-> base, dir |-> dir, length |-> L, tip |-> tip]

\* one (site, length) evaluation of _search: the tip test and the score
EvalPort(site, vi, L, spec, bboxE, center_px) ==
    LET base_px == ndc_to_px(site.ndc)
        silhouette == Dist(base_px, center_px)
        tip_ndc == TipNdc(site.ndc, site.step, spec.base_offset + L)
        tip_px == ndc_to_px(tip_ndc)
        outd == outside_distance_to_bbox_px(tip_px, bboxE)
        seglen == Dist(tip_px, base_px)
    IN  [ ok    |-> (~spec.require_tip_in_frame) \/ TipInMargins(tip_ndc, spec.tip_margin_px),
          score |-> Score20(OutTermPort(outd), silhouette, seglen),
          p     |-> Placement(vi, site.ndc, site.step, L, tip_ndc) ]

\* for s in range(max(1, length_samples)): keep the first strictly best sample
RECURSIVE SamplePort(_, _, _, _, _, _, _)
SamplePort(site, vi, spec, bboxE, center_px, s, local_best) ==
    IF s >= Max2(1, spec.length_samples) THEN local_best
    ELSE LET e == EvalPort(site, vi, SampleLength(spec, s), spec, bboxE, center_px)
             nxt == IF e.ok /\ (local_best = {} \/ e.score > Val(local_best).score)
                    THEN { [score |-> e.score, p |-> e.p] }
                    ELSE local_best
         IN  SamplePort(site, vi, spec, bboxE, center_px, s + 1, nxt)

\* local_best of one vertex: fixed length or sampled lengths
LocalBestPort(site, vi, spec, bboxE, center_px) ==
    IF IsFixedLength(spec)
    THEN LET e == EvalPort(site, vi, Val(spec.length), spec, bboxE, center_px)
         IN  IF e.ok THEN { [score |-> e.score, p |-> e.p] } ELSE {}
    ELSE SamplePort(site, vi, spec, bboxE, center_px, 0, {})

\* mutant of PortSiteAdmitted: the ray test of the base is left out
PortSiteAdmitted_NoRayTest(site, vi, spec, forced_idx, require_visible_base_local) ==
    /\ ~(spec.site_type = "VERTEX" /\ forced_idx # {} /\ vi # Val(forced_idx))
    /\ ndc_in_frame(site.ndc)

\* a vertex passes the filters at the head of the loop body of _search
PortSiteAdmitted(site, vi, spec, forced_idx, require_visible_base_local) ==
    /\ ~(spec.site_type = "VERTEX" /\ forced_idx # {} /\ vi # Val(forced_idx))
    /\ ndc_in_frame(site.ndc)
    /\ (require_visible_base_local => site.vis)

\* mutant of IsUnused: the used-vertex test is dropped
IsUnused_Ignored(used_set, vi) == TRUE

\* if used_set is None or vi not in used_set
IsUnused(used_set, vi) == ~used_set.on \/ vi \notin used_set.set

\* mutant of Better: an equal score replaces the current best
Better_OrEqual(cand, best) == best = {} \/ Val(cand).score >= Val(best).score

\* if local_best_score > best_score
Better(cand, best) == best = {} \/ Val(cand).score > Val(best).score

\* _search: for v in mesh.vertices, tracking best_any and best_unused
RECURSIVE SearchFrom(_, _, _, _, _, _, _, _, _)
SearchFrom(verts, k, spec, forced_idx, used_set, rvb, bboxE, center_px, acc) ==
    IF k > Len(verts) THEN acc
    ELSE LET vi == k - 1
             lb == IF PortSiteAdmitted(verts[k], vi, spec, forced_idx, rvb)
                   THEN LocalBestPort(verts[k], vi, spec, bboxE, center_px)
                   ELSE {}
             any2 == IF lb # {} /\ Better(lb, acc.best_any) THEN lb ELSE acc.best_any
             unused2 == IF lb # {} /\ IsUnused(used_set, vi) /\ Better(lb, acc.best_unused)
                        THEN lb ELSE acc.best_unused
         IN  SearchFrom(verts, k + 1, spec, forced_idx, used_set, rvb, bboxE, center_px,
                        [best_any |-> any2, best_unused |-> unused2])

\* _norm_index followed by the range check against len(mesh.vertices)
PortForcedIdx(verts, spec) ==
    IF spec.index = {} THEN {}
    ELSE IF Val(spec.index) < 0 THEN {}
    ELSE IF Val(spec.index) >= Len(verts) THEN {}
    ELSE spec.index

\* used_set = used_vertices if (unique_vertices and used_vertices is not None and forced_idx is None) else None
PortUsedSet(spec, forced_idx, used_vertices) ==
    [on |-> spec.unique_vertices /\ forced_idx = {}, set |-> used_vertices]

PortSearch(scene, spec, used_vertices, rvb) ==
    LET forced_idx == PortForcedIdx(scene.verts, spec)
        bboxE == ExpandBbox(projected_bbox_px(scene.verts), spec.bbox_margin_px)
    IN  SearchFrom(scene.verts, 1, spec, forced_idx, PortUsedSet(spec, forced_idx, used_vertices),
                   rvb, bboxE, ndc_to_px(scene.center), [best_any |-> {}, best_unused |-> {}])

\* the relaxed pass runs only under this condition
PortRetryCond(strict, used_set, forced_idx, spec) ==
    strict.best_unused = {} /\ used_set.on /\ forced_idx = {} /\ spec.require_visible_base

\* mutant of PortFallback: no check for an empty vertex list
PortFallback_Silent(scene, spec) ==
    IF Len(scene.verts) = 0
    THEN [raised |-> FALSE, path |-> "fallback", p |-> Placement(0, <<0, 0, 0>>, <<0, 0, 0>>, spec.length_min, <<0, 0, 0>>)]
    ELSE LET v0 == scene.verts[1]
         IN  [raised |-> FALSE, path |-> "fallback",
              p |-> Placement(0, v0.ndc, v0.step, spec.length_min,
                              TipNdc(v0.ndc, v0.step, spec.base_offset + spec.length_min))]

\* if best is None: vertex 0 with length L_min, or RuntimeError on an empty mesh
PortFallback(scene, spec) ==
    IF Len(scene.verts) = 0
    THEN [raised |-> TRUE, path |-> "error", p |-> Placement(0, <<0, 0, 0>>, <<0, 0, 0>>, 0, <<0, 0, 0>>)]
    ELSE LET v0 == scene.verts[1]
         IN  [raised |-> FALSE, path |-> "fallback",
              p |-> Placement(0, v0.ndc, v0.step, spec.length_min,
                              TipNdc(v0.ndc, v0.step, spec.base_offset + spec.length_min))]

Found(path, cand) == [raised |-> FALSE, path |-> path, p |-> Val(cand).p]

\* choose_vertex_and_length_for_port
choose_vertex_and_length_for_port(scene, spec, used_vertices) ==
    LET forced_idx == PortForcedIdx(scene.verts, spec)
        used_set == PortUsedSet(spec, forced_idx, used_vertices)
        strict == PortSearch(scene, spec, used_vertices, spec.require_visible_base)
    IN  IF PortRetryCond(strict, used_set, forced_idx, spec)
        THEN LET relaxed == PortSearch(scene, spec, used_vertices, FALSE)
             IN  IF relaxed.best_unused # {} THEN Found("relaxed", relaxed.best_unused)
                 ELSE IF strict.best_any # {} THEN Found("any", strict.best_any)
                 ELSE PortFallback(scene, spec)
        ELSE IF strict.best_unused # {} THEN Found("unused", strict.best_unused)
        ELSE IF strict.best_any # {} THEN Found("any", strict.best_any)
        ELSE PortFallback(scene, spec)

\* ---- labels
\* mutant of OutTermLabel: inward labels are scored like outward ones
OutTermLabel_AsOutward(outd, want_in) == IF outd >= 0 THEN 20 * outd ELSE 30 * outd

\* out_term = (-outd) if want_in else (outd if outd >= 0.0 else outd * 1.5), times 20
OutTermLabel(outd, want_in) == IF want_in THEN 0 - 20 * outd ELSE OutTermPort(outd)

WantIn(spec) == spec.direction = "IN"

EvalLabel(site, fi, L, spec, bboxE, center_px) ==
    LET dir == IF WantIn(spec) THEN Neg(site.step) ELSE site.step
        base_px == ndc_to_px(site.ndc)
        silhouette == Dist(base_px, center_px)
        tip_ndc == TipNdc(site.ndc, dir, spec.base_offset + L)
        tip_px == ndc_to_px(tip_ndc)
        outd == outside_distance_to_bbox_px(tip_px, bboxE)
        seglen == Dist(tip_px, base_px)
    IN  [ ok    |-> (~spec.require_tip_in_frame) \/ TipInMargins(tip_ndc, spec.tip_margin_px),
          score |-> Score20(OutTermLabel(outd, WantIn(spec)), silhouette, seglen),
          p     |-> Placement(fi, site.ndc, dir, L, tip_ndc) ]

RECURSIVE SampleLabel(_, _, _, _, _, _, _)
SampleLabel(site, fi, spec, bboxE, center_px, s, local_best) ==
    IF s >= Max2(1, spec.length_samples) THEN local_best
    ELSE LET e == EvalLabel(site, fi, SampleLength(spec, s), spec, bboxE, center_px)
             nxt == IF e.ok /\ (local_best = {} \/ e.score > Val(local_best).score)
                    THEN { [score |-> e.score, p |-> e.p] }
                    ELSE local_best
         IN  SampleLabel(site, fi, spec, bboxE, center_px, s + 1, nxt)

LocalBestLabel(site, fi, spec, bboxE, center_px) ==
    IF IsFixedLength(spec)
    THEN LET e == EvalLabel(site, fi, Val(spec.length), spec, bboxE, center_px)
         IN  IF e.ok THEN { [score |-> e.score, p |-> e.p] } ELSE {}
    ELSE SampleLabel(site, fi, spec, bboxE, center_px, 0, {})

\* the filters at the head of the loop over mesh.polygons; attach.index is used
\* as given (no normalisation, no range check)
LabelSiteAdmitted(site, fi, spec) ==
    /\ ~(spec.site_type = "FACE" /\ spec.index # {} /\ fi # Val(spec.index))
    /\ ndc_in_frame(site.ndc)
    /\ (spec.require_visible_base => site.vis)

RECURSIVE LabelSearchFrom(_, _, _, _, _, _)
LabelSearchFrom(faces, k, spec, bboxE, center_px, best) ==
    IF k > Len(faces) THEN best
    ELSE LET fi == k - 1
             lb == IF LabelSiteAdmitted(faces[k], fi, spec)
                   THEN LocalBestLabel(faces[k], fi, spec, bboxE, center_px)
                   ELSE {}
             best2 == IF lb # {} /\ Better(lb, best) THEN lb ELSE best
         IN  LabelSearchFrom(faces, k + 1, spec, bboxE, center_px, best2)

LabelSearch(scene, spec) ==
    LabelSearchFrom(scene.faces, 1, spec,
                    ExpandBbox(projected_bbox_px(scene.verts), spec.bbox_margin_px),
                    ndc_to_px(scene.center), {})

\* mutant of LabelFallback: no fallback site, the empty search is an error
LabelFallback_Raises(scene, spec) ==
    [raised |-> TRUE, path |-> "error", p |-> Placement(0, <<0, 0, 0>>, <<0, 0, 0>>, 0, <<0, 0, 0>>)]

\* if best is None: polygon 0, outward normal, length L_min; RuntimeError without polygons
LabelFallback(scene, spec) ==
    IF Len(scene.faces) = 0
    THEN [raised |-> TRUE, path |-> "error", p |-> Placement(0, <<0, 0, 0>>, <<0, 0, 0>>, 0, <<0, 0, 0>>)]
    ELSE LET f0 == scene.faces[1]
         IN  [raised |-> FALSE, path |-> "fallback",
              p |-> Placement(0, f0.ndc, f0.step, spec.length_min,
                              TipNdc(f0.ndc, f0.step, spec.base_offset + spec.length_min))]

\* choose_face_and_length_for_label
choose_face_and_length_for_label(scene, spec) ==
    LET best == LabelSearch(scene, spec)
    IN  IF best # {} THEN Found("best", best) ELSE LabelFallback(scene, spec)

\* ---- inputs
Site(ndc, step, vis) == [ndc |-> ndc, step |-> step, vis |-> vis]

\* camera views of a vertex: facing the camera, on the far side of the solid,
\* outside the frame, and close to the frame edge (no tip fits the margin)
VertProfiles ==
    { Site(<<7, 5, 2>>, <<1, 0, -1>>, TRUE),
      Site(<<4, 5, 6>>, <<-1, 0, 1>>, FALSE),
      Site(<<11, 5, 4>>, <<1, 0, 0>>, TRUE),
      Site(<<5, 9, 4>>, <<0, 1, 0>>, TRUE) }

\* the views the builds are run on: facing, far side, out of frame
BuildVertProfiles ==
    { Site(<<7, 5, 2>>, <<1, 0, -1>>, TRUE),
      Site(<<4, 5, 6>>, <<-1, 0, 1>>, FALSE),
      Site(<<11, 5, 4>>, <<1, 0, 0>>, TRUE) }

FaceProfiles ==
    { Site(<<6, 5, 4>>, <<1, 0, 0>>, TRUE),
      Site(<<5, 4, 6>>, <<0, -1, 1>>, FALSE),
      Site(<<5, 8, 4>>, <<0, 1, 0>>, TRUE),
      Site(<<5, 11, 4>>, <<0, 1, 0>>, TRUE) }

Tables(P, n) == [1..n -> P]

Center == <<5, 5, 5>>

Scene(verts, faces) == [verts |-> verts, faces |-> faces, center |-> Center]

DefaultFaces == [k \in 1..NF |-> Site(<<6, 5, 4>>, <<1, 0, 0>>, TRUE)]

VertexIds == 0..(NV - 1)

PortSpec(index, unique, rvb, rtf, length) ==
    [ index |-> index, site_type |-> "VERTEX", unique_vertices |-> unique,
      require_visible_base |-> rvb, require_tip_in_frame |-> rtf,
      length |-> length, length_min |-> 1, length_max |-> 3, length_samples |-> 3,
      base_offset |-> 0, bbox_margin_px |-> 1, tip_margin_px |-> 2 ]

LabelSpec(index, dir, rvb, rtf, length) ==
    [ index |-> index, site_type |-> "FACE", direction |-> dir,
      require_visible_base |-> rvb, require_tip_in_frame |-> rtf,
      length |-> length, length_min |-> 1, length_max |-> 3, length_samples |-> 3,
      base_offset |-> 0, bbox_margin_px |-> 1, tip_margin_px |-> 2 ]

\* attach.index as written by the manifest: absent, in range, or stale
PortIndexes == { {}, {0}, {1}, {NV} }
LabelIndexes == { {}, {0}, {1}, {NF} }
Lengths == { {}, {1} }

PortSpecs == { PortSpec(i, u, v, t, l) : i \in PortIndexes, u \in BOOLEAN, v \in BOOLEAN, t \in BOOLEAN, l \in Lengths }
LabelSpecs == { LabelSpec(i, d, v, t, l) : i \in LabelIndexes, d \in {"OUT", "IN"}, v \in BOOLEAN, t \in BOOLEAN, l \in Lengths }

\* ---- state
VARIABLES scene, used, last, manifest, pc, placed, prev
vars == << scene, used, last, manifest, pc, placed, prev >>

NoCall == [kind |-> "none"]

\* -- direct calls of the two placement functions: Init draws the arguments of
\* one call, of the port function (any vertex table, any used set) or of the
\* label function (any face table, over a solid whose vertices look alike)
UniformVerts == { [k \in 1..NV |-> p] : p \in VertProfiles }

\* a mesh without vertices (and so without faces), and meshes that have
\* vertices but no polygon
DegenerateScenes == { Scene(<< >>, << >>) } \cup { Scene(v, << >>) : v \in UniformVerts }

InitPlace ==
    /\ \/ /\ pc = "call_port"
          /\ scene \in { Scene(v, DefaultFaces) : v \in Tables(VertProfiles, NV) } \cup DegenerateScenes
          /\ used \in [{"A"} -> SUBSET VertexIds]
       \/ /\ pc = "call_label"
          /\ scene \in { Scene(v, f) : v \in UniformVerts, f \in Tables(FaceProfiles, NF) } \cup DegenerateScenes
          /\ used = [b \in {"A"} |-> {}]
    /\ last = NoCall
    /\ manifest = << >>
    /\ placed = << >>
    /\ prev = {}

PlacePort(spec) ==
    /\ pc = "call_port"
    /\ last' = [kind |-> "port", spec |-> spec, used_in |-> used["A"],
                res |-> choose_vertex_and_length_for_port(scene, spec, used["A"])]
    /\ pc' = "returned"
    /\ UNCHANGED << scene, used, manifest, placed, prev >>

PlaceLabel(spec) ==
    /\ pc = "call_label"
    /\ last' = [kind |-> "label", spec |-> spec, used_in |-> {},
                res |-> choose_face_and_length_for_label(scene, spec)]
    /\ pc' = "returned"
    /\ UNCHANGED << scene, used, manifest, placed, prev >>

NextPlace ==
    \/ \E spec \in PortSpecs : PlacePort(spec)
    \/ \E spec \in LabelSpecs : PlaceLabel(spec)

SpecPlace == InitPlace /\ [][NextPlace]_vars

\* -- build_scene_from_manifest: the loop over the manifest's labels and ports
Boundaries == {"A", "B"}

\* the solid a target name refers to; "B" is a second instance of the solid,
\* seen mirrored (vertex order reversed)
BoundaryScene(sc, target) ==
    IF target = "A" THEN sc
    ELSE Scene([k \in 1..Len(sc.verts) |-> sc.verts[Len(sc.verts) + 1 - k]], sc.faces)

PortObj(target, spec) == [type |-> "port", target |-> target, spec |-> spec]
LabelObj(target, spec) == [type |-> "label", target |-> target, spec |-> spec]

\* the objects a manifest is made of, by name
ManifestObjects == { "portA", "portA_index1", "portB", "labelA" }

Object(name) ==
    CASE name = "portA"           -> PortObj("A", PortSpec({}, TRUE, TRUE, TRUE, {}))
      [] name = "portA_index1"    -> PortObj("A", PortSpec({1}, TRUE, TRUE, TRUE, {}))
      [] name = "portB"           -> PortObj("B", PortSpec({}, TRUE, TRUE, TRUE, {}))
      [] name = "labelA"          -> LabelObj("A", LabelSpec({}, "OUT", TRUE, TRUE, {}))

Manifests == UNION { [1..n -> ManifestObjects] : n \in 1..MaxObjects }

\* mutant of UsedSetFor: one set shared by all boundaries
UsedSetFor_Shared(u, target) == UNION { u[b] : b \in DOMAIN u }

\* used_port_vertices_by_boundary.setdefault(target_name, set())
UsedSetFor(u, target) == IF target \in DOMAIN u THEN u[target] ELSE {}

\* mutant of RecordUsed: only a vertex found by the search is recorded
RecordUsed_FoundOnly(used_set, res) ==
    IF res.path = "fallback" THEN used_set ELSE used_set \cup { res.p.index }

\* used_set.add(int(placement.vertex_index))
RecordUsed(used_set, res) == used_set \cup { res.p.index }

PutUsed(u, target, set) == [b \in (DOMAIN u) \cup {target} |-> IF b = target THEN set ELSE u[b]]

Init ==
    /\ scene \in { Scene(v, DefaultFaces) : v \in Tables(BuildVertProfiles, NV) }
    /\ used = << >>
    /\ last = NoCall
    /\ manifest = << >>
    /\ pc = "idle"
    /\ placed = << >>
    /\ prev = {}

\* entry of build_scene_from_manifest up to the object loop: a first build of
\* any manifest, or the same manifest built again
StartBuild(m) ==
    /\ \/ pc = "idle"
       \/ pc = "done" /\ m = manifest
    /\ manifest' = m
    /\ used' = << >>
    /\ placed' = << >>
    /\ prev' = IF pc = "done" THEN { placed } ELSE {}
    /\ pc' = "building"
    /\ last' = NoCall
    /\ UNCHANGED scene

NextObject == Object(manifest[Len(placed) + 1])

Entry(o, res) ==
    [type |-> o.type, target |-> o.target,
     index |-> res.p.index, length |-> res.p.length, path |-> res.path]

\* mutant of BuildPort: the vertex of a port with an explicit index is not recorded
BuildPort_ForcedUnrecorded ==
    /\ pc = "building"
    /\ Len(placed) < Len(manifest)
    /\ NextObject.type = "port"
    /\ LET o == NextObject
           used_set == UsedSetFor(used, o.target)
       IN  \E res \in { choose_vertex_and_length_for_port(BoundaryScene(scene, o.target), o.spec, used_set) } :
           /\ used' = PutUsed(used, o.target,
                              IF o.spec.index # {} THEN used_set ELSE RecordUsed(used_set, res))
           /\ placed' = Append(placed, Entry(o, res))
           /\ last' = [kind |-> "port", spec |-> o.spec, used_in |-> used_set, res |-> res]
    /\ UNCHANGED << scene, manifest, pc, prev >>

\* loop iteration with t == "port": build_port_object
BuildPort ==
    /\ pc = "building"
    /\ Len(placed) < Len(manifest)
    /\ NextObject.type = "port"
    /\ LET o == NextObject
           used_set == UsedSetFor(used, o.target)
       IN  \E res \in { choose_vertex_and_length_for_port(BoundaryScene(scene, o.target), o.spec, used_set) } :
           /\ used' = PutUsed(used, o.target, RecordUsed(used_set, res))
           /\ placed' = Append(placed, Entry(o, res))
           /\ last' = [kind |-> "port", spec |-> o.spec, used_in |-> used_set, res |-> res]
    /\ UNCHANGED << scene, manifest, pc, prev >>

\* loop iteration with t == "label": build_label_object
BuildLabel ==
    /\ pc = "building"
    /\ Len(placed) < Len(manifest)
    /\ NextObject.type = "label"
    /\ LET o == NextObject
       IN  \E res \in { choose_face_and_length_for_label(BoundaryScene(scene, o.target), o.spec) } :
           /\ placed' = Append(placed, Entry(o, res))
           /\ last' = [kind |-> "label", spec |-> o.spec, used_in |-> {}, res |-> res]
    /\ UNCHANGED << scene, used, manifest, pc, prev >>

\* the loop is exhausted: build_scene_from_manifest returns
FinishBuild ==
    /\ pc = "building"
    /\ Len(placed) = Len(manifest)
    /\ pc' = "done"
    /\ UNCHANGED << scene, used, last, manifest, placed, prev >>

Next ==
    \/ pc = "idle" /\ \E m \in Manifests : StartBuild(m)
    \/ pc = "done" /\ StartBuild(manifest)
    \/ BuildPort
    \/ BuildLabel
    \/ FinishBuild

Spec == Init /\ [][Next]_vars

\* ======================================================================
\* Properties
\* ======================================================================
IsPortCall == last.kind = "port"
IsLabelCall == last.kind = "label"

\* the lengths one candidate site is evaluated at
EvaluatedLengths(spec) ==
    IF IsFixedLength(spec) THEN { Val(spec.length) }
    ELSE { SampleLength(spec, s) : s \in 0..(Max2(1, spec.length_samples) - 1) }

TipPasses(site, dir, L, spec) ==
    (~spec.require_tip_in_frame) \/ TipInMargins(TipNdc(site.ndc, dir, spec.base_offset + L), spec.tip_margin_px)

\* ---- ports of the current build
PortsOn(b) == { i \in 1..Len(placed) : placed[i].type = "port" /\ placed[i].target = b }
SpecAt(i) == Object(manifest[i]).spec
AutoUniquePorts(b) == { i \in PortsOn(b) : SpecAt(i).index = {} /\ SpecAt(i).unique_vertices }
ClaimedBefore(j) == { placed[i].index : i \in { k \in PortsOn(placed[j].target) : k < j } }

\* some vertex not yet claimed has its base in frame and a candidate length
\* whose tip passes the tip test
HasFreeSite(j) ==
    LET verts == BoundaryScene(scene, placed[j].target).verts
    IN  \E k \in 1..Len(verts) :
            /\ (k - 1) \notin ClaimedBefore(j)
            /\ ndc_in_frame(verts[k].ndc)
            /\ \E L \in EvaluatedLengths(SpecAt(j)) : TipPasses(verts[k], verts[k].step, L, SpecAt(j))

\* C1 (as stated): within one build, N <= vertex count auto-placed ports with
\* unique_vertices on, on the same boundary, get N pairwise distinct vertices.
C1_AllDistinct ==
    \A b \in Boundaries :
        Cardinality(AutoUniquePorts(b)) <= NV =>
            \A i, j \in AutoUniquePorts(b) : i # j => placed[i].index # placed[j].index

\* C1 (amended): an auto-placed port with unique_vertices on gets a vertex no
\* earlier port of the build on that boundary has claimed, whenever some
\* unclaimed vertex has its base in frame and a candidate length passing the
\* tip test; ports for which that holds are pairwise distinct from all earlier ones.
C1_DistinctWhenFree ==
    \A b \in Boundaries : \A j \in AutoUniquePorts(b) :
        HasFreeSite(j) => placed[j].index \notin ClaimedBefore(j)

C1_Witness ==
    /\ Len(placed) = 3
    /\ AutoUniquePorts("A") = {1, 2, 3}
    /\ \A j \in {1, 2, 3} : HasFreeSite(j)
    /\ Cardinality({ placed[j].index : j \in {1, 2, 3} }) = 3

\* C7: the used-vertex sets are empty when a build starts, a boundary's set
\* holds only vertices claimed by this build's ports on that boundary, and
\* building the same manifest again gives the same assignment.
C7_UsedScoped ==
    /\ (pc = "building" /\ placed = << >>) => \A b \in DOMAIN used : used[b] = {}
    /\ \A b \in DOMAIN used : used[b] \subseteq { placed[i].index : i \in PortsOn(b) }
    /\ (pc = "done" /\ prev # {}) => placed = Val(prev)

C7_Witness ==
    /\ pc = "done"
    /\ prev # {}
    /\ PortsOn("A") # {} /\ PortsOn("B") # {}
    /\ used["A"] # used["B"]

\* C8: every built port's vertex is in the used set of its target boundary,
\* on every path, and the sets only grow while a build runs.
C8_WinnerRecorded ==
    [][ /\ \A i \in 1..Len(placed') :
              placed'[i].type = "port" =>
                  placed'[i].target \in DOMAIN used' /\ placed'[i].index \in used'[placed'[i].target]
        /\ (pc = "building" /\ pc' = "building") =>
              \A b \in DOMAIN used : b \in DOMAIN used' /\ used[b] \subseteq used'[b]
      ]_vars

C8_Witness ==
    \E i, j \in 1..Len(placed) :
        /\ manifest[i] = "portA_index1" /\ placed[i].path = "fallback"
        /\ placed[i].index \in used["A"]
        /\ placed[j].type = "port" /\ placed[j].path = "any"
        /\ placed[j].index \in used[placed[j].target]

\* ---- single calls of the placement functions
\* the order of C2, read in the code's favour: "unrestricted best" is the
\* strict pass's best_any
ClaimedPortOrder(sc, spec, used_vertices) ==
    LET strict == PortSearch(sc, spec, used_vertices, spec.require_visible_base)
        relaxed == PortSearch(sc, spec, used_vertices, FALSE)
    IN  IF strict.best_unused # {} THEN Val(strict.best_unused).p
        ELSE IF relaxed.best_unused # {} THEN Val(relaxed.best_unused).p
        ELSE IF strict.best_any # {} THEN Val(strict.best_any).p
        ELSE PortFallback(sc, spec).p

\* C2: the port search returns the best unused candidate, else the result of
\* one retry with require_visible_base relaxed, else the unrestricted best,
\* else vertex 0 with length_min.
C2_PortOrder ==
    (IsPortCall /\ ~last.res.raised) =>
        last.res.p = ClaimedPortOrder(scene, last.spec, last.used_in)

\* an explicit index that the current topology does not have
StaleIndex(spec, n) == spec.index # {} /\ (Val(spec.index) < 0 \/ Val(spec.index) >= n)

AutoSpec(spec) == [spec EXCEPT !.index = {}]

\* C3: an out-of-range explicit index gives the placement of the search
\* without an index, for ports and for labels, and raises nothing.
C3_StaleIndexIsAuto ==
    /\ (IsPortCall /\ StaleIndex(last.spec, Len(scene.verts)) /\ Len(scene.verts) > 0) =>
           last.res = choose_vertex_and_length_for_port(scene, AutoSpec(last.spec), last.used_in)
    /\ (IsLabelCall /\ StaleIndex(last.spec, Len(scene.faces)) /\ Len(scene.faces) > 0) =>
           last.res = choose_face_and_length_for_label(scene, AutoSpec(last.spec))

\* the tip in pixels lies in [tip_margin_px, resolution - tip_margin_px] on both axes
TipPxWithinMargin(tip_ndc, spec) ==
    LET px == ndc_to_px(tip_ndc)
    IN  /\ spec.tip_margin_px <= px[1] /\ px[1] <= W - spec.tip_margin_px
        /\ spec.tip_margin_px <= px[2] /\ px[2] <= H - spec.tip_margin_px
        /\ tip_ndc[3] >= 0

IsAbsoluteFallback(res, spec) ==
    res.path = "fallback" /\ res.p.index = 0 /\ res.p.length = spec.length_min

\* C4: with require_tip_in_frame, the returned tip is inside the frame less
\* the tip margin (and not behind the camera), or the result is the absolute
\* fallback (site 0, length_min).
C4_TipInFrameOrFallback ==
    (last.kind # "none" /\ ~last.res.raised /\ last.spec.require_tip_in_frame) =>
        \/ TipPxWithinMargin(last.res.p.tip, last.spec)
        \/ IsAbsoluteFallback(last.res, last.spec)

C4_Witness ==
    /\ IsLabelCall
    /\ last.spec.require_tip_in_frame
    /\ last.res.path = "best"
    /\ last.spec.length = {}
    /\ last.res.p.length = 1
    /\ TipPxWithinMargin(last.res.p.tip, last.spec)
    /\ ~TipPxWithinMargin(TipNdc(last.res.p.base, last.res.p.dir, last.spec.base_offset + 2), last.spec)

\* C5: on a mesh with a vertex and a face both functions return a placement
\* of an existing site, whatever the camera and the spec.
C5_AlwaysReturns ==
    (last.kind # "none" /\ Len(scene.verts) >= 1 /\ Len(scene.faces) >= 1) =>
        /\ ~last.res.raised
        /\ last.res.p.index \in 0..((IF IsPortCall THEN Len(scene.verts) ELSE Len(scene.faces)) - 1)
        /\ last.res.p.length \in EvaluatedLengths(last.spec) \cup { last.spec.length_min }

C5_Witness ==
    /\ IsLabelCall
    /\ Len(scene.verts) >= 1 /\ Len(scene.faces) >= 1
    /\ last.spec.index = {}
    /\ \A k \in 1..Len(scene.faces) : ~ndc_in_frame(scene.faces[k].ndc)
    /\ ~last.res.raised
    /\ last.res.path = "fallback"

\* C9: an explicit in-range attach.index is the vertex of the returned placement.
C9_ExplicitIndexUsed ==
    (IsPortCall /\ ~last.res.raised /\ last.spec.index # {} /\ ~StaleIndex(last.spec, Len(scene.verts))) =>
        last.res.p.index = Val(last.spec.index)

RelaxedSpec(spec) == [spec EXCEPT !.require_visible_base = FALSE]

StrictScoresNothing ==
    IF IsPortCall
    THEN PortSearch(scene, last.spec, last.used_in, last.spec.require_visible_base).best_any = {}
    ELSE LabelSearch(scene, last.spec) = {}

RelaxedScoresSomething ==
    IF IsPortCall
    THEN PortSearch(scene, last.spec, last.used_in, FALSE).best_any # {}
    ELSE LabelSearch(scene, RelaxedSpec(last.spec)) # {}

\* C10: when the strict search scores nothing, the search is retried with
\* require_visible_base relaxed, and the absolute fallback is returned only
\* if the retry scores nothing either.
C10_RetryBeforeFallback ==
    (last.kind # "none" /\ ~last.res.raised /\ StrictScoresNothing /\ RelaxedScoresSomething) =>
        last.res.path # "fallback"

\* C11: the port call raises exactly when the boundary mesh has no vertex and
\* the label call raises exactly when it has no face; every other call returns
\* a placement.
C11_RaisesIffEmpty ==
    /\ IsPortCall => (last.res.raised <=> Len(scene.verts) = 0)
    /\ IsLabelCall => (last.res.raised <=> Len(scene.faces) = 0)
    /\ last.kind # "none" => (last.res.raised <=> last.res.path = "error")

C11_Witness ==
    /\ IsLabelCall
    /\ Len(scene.verts) > 0
    /\ Len(scene.faces) = 0
    /\ last.res.raised

\* the attach site of the scene the returned placement names
ReturnedSite ==
    IF IsPortCall THEN scene.verts[last.res.p.index + 1] ELSE scene.faces[last.res.p.index + 1]

IsScored(res) == ~res.raised /\ res.path \in { "unused", "relaxed", "any", "best" }

\* C17: a placement found by the scored search (any path but the absolute
\* fallback) has its base in frame; with require_visible_base, unless it
\* comes from the relaxed retry, its base also passes the ray test.
C17_ScoredBaseAdmitted ==
    (last.kind \in { "port", "label" } /\ IsScored(last.res)) =>
        /\ last.res.p.base = ReturnedSite.ndc
        /\ ndc_in_frame(last.res.p.base)
        /\ (last.spec.require_visible_base /\ last.res.path # "relaxed") => ReturnedSite.vis

\* a vertex facing the camera wins while a vertex in frame on the far side
\* of the solid is passed over
C17_Witness ==
    /\ IsPortCall
    /\ IsScored(last.res)
    /\ last.spec.require_visible_base
    /\ last.res.path = "unused"
    /\ ReturnedSite.vis
    /\ last.res.p.index = 2
    /\ \E k \in 1..2 : ndc_in_frame(scene.verts[k].ndc) /\ ~scene.verts[k].vis

\* ---- the score of the returned candidate, evaluated again
ReturnedBboxE == ExpandBbox(projected_bbox_px(scene.verts), last.spec.bbox_margin_px)

ReturnedEval ==
    IF IsPortCall
    THEN EvalPort(ReturnedSite, last.res.p.index, last.res.p.length, last.spec,
                  ReturnedBboxE, ndc_to_px(scene.center))
    ELSE EvalLabel(ReturnedSite, last.res.p.index, last.res.p.length, last.spec,
                   ReturnedBboxE, ndc_to_px(scene.center))

\* outside distance of the returned tip, silhouette and segment length
ReturnedOutd == outside_distance_to_bbox_px(ndc_to_px(last.res.p.tip), ReturnedBboxE)
ReturnedSilhouette == Dist(ndc_to_px(last.res.p.base), ndc_to_px(scene.center))
ReturnedSeglen == Dist(ndc_to_px(last.res.p.tip), ndc_to_px(last.res.p.base))

\* 20 * (term + 0.25 * silhouette + 0.10 * seglen)
ScoreWithTerm20(term20) == term20 + 5 * ReturnedSilhouette + 2 * ReturnedSeglen

IsInwardLabel == IsLabelCall /\ last.spec.direction = "IN"

MaxTris == 3
MaxPolys == 2

Sub3(a, b) == << a[1] - b[1], a[2] - b[2], a[3] - b[3] >>
Dot3(a, b) == a[1] * b[1] + a[2] * b[2] + a[3] * b[3]
Cross3(a, b) ==
    << a[2] * b[3] - a[3] * b[2], a[3] * b[1] - a[1] * b[3], a[1] * b[2] - a[2] * b[1] >>

IsZero3(n) == n = << 0, 0, 0 >>

\* n = (vb - va).cross(vc - va) of triangle (a, b, c); indices are 0-based
TriNormal(verts, f) ==
    Cross3(Sub3(verts[f[2] + 1], verts[f[1] + 1]), Sub3(verts[f[3] + 1], verts[f[1] + 1]))

\* key = (i, j) if i < j else (j, i)
EdgeKey(i, j) == IF i < j THEN << i, j >> ELSE << j, i >>

\* mutant of NotCoplanar: the sign of the dot product is not dropped
NotCoplanar_Signed(n0, n1, c) ==
    \/ Dot3(n0, n1) < 0
    \/ Dot3(n0, n1) * Dot3(n0, n1) * c.den * c.den < c.num * c.num * Dot3(n0, n0) * Dot3(n1, n1)

\* abs(n0.dot(n1)) < float(coplanar_dot)
NotCoplanar(n0, n1, c) ==
    Dot3(n0, n1) * Dot3(n0, n1) * c.den * c.den < c.num * c.num * Dot3(n0, n0) * Dot3(n1, n1)

\* the three (key, face index) pairs a triangle adds to edge_faces, in order
TriEdgeKeys(f) == << EdgeKey(f[1], f[2]), EdgeKey(f[2], f[3]), EdgeKey(f[3], f[1]) >>

\* the k-th smallest element of a finite set of integers
KthSmallest(S, k) == CHOOSE n \in S : Cardinality({ m \in S : m <= n }) = k

\* the keys visited by the loop over enumerate(tri_faces), one per (face, side)
FlatKeys(tri_faces) ==
    [n \in 1..(3 * Len(tri_faces)) |-> TriEdgeKeys(tri_faces[((n - 1) \div 3) + 1])[((n - 1) % 3) + 1]]

\* edge_faces after that loop: keys in insertion order (a dict keeps it), and
\* for every key the list of face indices appended to it
edge_faces(tri_faces) ==
    LET flat == FlatKeys(tri_faces)
        first == { n \in DOMAIN flat : \A m \in 1..(n - 1) : flat[m] # flat[n] }
        at(key) == { n \in DOMAIN flat : flat[n] = key }
    IN  [ keys |-> [k \in 1..Cardinality(first) |-> flat[KthSmallest(first, k)]],
          fs   |-> [key \in { flat[n] : n \in DOMAIN flat } |->
                       [k \in 1..Cardinality(at(key)) |-> (KthSmallest(at(key), k) - 1) \div 3]] ]

\* mutant of KeepEdge: every edge of the triangle list is kept
KeepEdge_All(verts, tri_faces, fs, c) == TRUE

\* len(fs) <= 1: keep; else keep if fs[0] and some later face have a zero
\* normal or are not coplanar
KeepEdge(verts, tri_faces, fs, c) ==
    \/ Len(fs) <= 1
    \/ LET n0 == TriNormal(verts, tri_faces[fs[1] + 1])
       IN  \E j \in 2..Len(fs) :
               LET n1 == TriNormal(verts, tri_faces[fs[j] + 1])
               IN  IsZero3(n0) \/ IsZero3(n1) \/ NotCoplanar(n0, n1, c)

\* tuple order of Python: (i, j) < (k, l)
PairLess(p, q) == p[1] < q[1] \/ (p[1] = q[1] /\ p[2] < q[2])

\* sorted(list): element i goes to the place given by the number of elements
\* that sort before it (equal elements keep their order)
SortedList(list) ==
    [k \in 1..Len(list) |->
        list[CHOOSE i \in 1..Len(list) :
                 Cardinality({ j \in 1..Len(list) :
                                 PairLess(list[j], list[i]) \/ (list[j] = list[i] /\ j < i) }) = k - 1]]

\* mutant of boundary_edges: the kept edges are returned in dict order
boundary_edges_Unsorted(verts, tri_faces, c) ==
    LET ef == edge_faces(tri_faces)
    IN  SelectSeq(ef.keys, LAMBDA key : KeepEdge(verts, tri_faces, ef.fs[key], c))

\* boundary_edges(verts, tri_faces, coplanar_dot)
boundary_edges(verts, tri_faces, c) ==
    LET ef == edge_faces(tri_faces)
    IN  SortedList(SelectSeq(ef.keys, LAMBDA key : KeepEdge(verts, tri_faces, ef.fs[key], c)))

\* zip(face, face[1:] + face[:1]) as keys
FaceEdgeKeys(face) ==
    { EdgeKey(face[k], face[(k % Len(face)) + 1]) : k \in 1..Len(face) }

\* sorted(edges) of a set: its elements in tuple order
SetToSortedList(S) ==
    [k \in 1..Cardinality(S) |-> CHOOSE x \in S : Cardinality({ y \in S : PairLess(y, x) }) = k - 1]

\* boundary_edges_from_faces(faces)
boundary_edges_from_faces(faces) ==
    SetToSortedList(UNION { FaceEdgeKeys(faces[k]) : k \in { i \in 1..Len(faces) : Len(faces[i]) >= 2 } })

\* ---- inputs of the edge functions
\* cube_topology of test/scripts/setup_scene.py: 8 corners, 12 triangles
CubeVerts ==
    << <<-1, -1, -1>>, <<1, -1, -1>>, <<1, 1, -1>>, <<-1, 1, -1>>,
       <<-1, -1, 1>>, <<1, -1, 1>>, <<1, 1, 1>>, <<-1, 1, 1>> >>

CubeTris ==
    << <<0, 1, 2>>, <<0, 2, 3>>, <<4, 6, 5>>, <<4, 7, 6>>,
       <<0, 4, 5>>, <<0, 5, 1>>, <<1, 5, 6>>, <<1, 6, 2>>,
       <<2, 6, 7>>, <<2, 7, 3>>, <<3, 7, 4>>, <<3, 4, 0>> >>

\* cube_topology of mbm-blender/setup_scene.py: the same corners, 6 quads
CubeQuads ==
    << <<0, 3, 2, 1>>, <<4, 5, 6, 7>>, <<0, 1, 5, 4>>,
       <<3, 7, 6, 2>>, <<1, 2, 6, 5>>, <<0, 4, 7, 3>> >>

\* a patch of five points; point 3 lies in the plane of 0, 1, 2, slightly
\* above it, well above it, or on the line through 0 and 1
PatchVerts(p3) == << <<0, 0, 0>>, <<1, 0, 0>>, <<0, 1, 0>>, p3, <<0, 0, 1>> >>
PatchP3 == { <<1, 1, 0>>, <<2, 2, 1>>, <<1, 1, 1>>, <<2, 0, 0>> }

PatchTris == { <<0, 1, 2>>, <<1, 3, 2>>, <<2, 3, 1>>, <<0, 4, 1>>, <<0, 1, 3>> }

TriLists == UNION { [1..n -> PatchTris] : n \in 1..MaxTris }

\* coplanar_dot as num / den (the add-on allows 0.9 .. 1.0)
Thresholds == { [num |-> 9, den |-> 10], [num |-> 999, den |-> 1000] }
DefaultCoplanarDot == [num |-> 999, den |-> 1000]

TriInput(verts, tri_faces, c) == [kind |-> "tri", verts |-> verts, faces |-> tri_faces, coplanar_dot |-> c]
FaceInput(faces) == [kind |-> "faces", verts |-> << >>, faces |-> faces, coplanar_dot |-> DefaultCoplanarDot]

\* polygon faces over four vertices: segments, triangles and quads
PatchPolys ==
    { <<0, 1>>, <<0, 1, 2>>, <<2, 1, 0>>, <<1, 3, 2>>, <<0, 1, 3, 2>>, <<3, 0, 2>> }

PolyLists == UNION { [1..n -> PatchPolys] : n \in 0..MaxPolys }

\* -- direct calls of the two edge functions; scene holds the arguments,
\* last the returned list
InitEdges ==
    /\ \/ /\ pc = "call_boundary_edges"
          /\ scene \in { TriInput(PatchVerts(p3), t, c) : p3 \in PatchP3, t \in TriLists, c \in Thresholds }
                       \cup { TriInput(CubeVerts, CubeTris, c) : c \in Thresholds }
       \/ /\ pc = "call_boundary_edges_from_faces"
          /\ scene \in { FaceInput(f) : f \in PolyLists } \cup { FaceInput(CubeQuads) }
    /\ used = << >>
    /\ last = NoCall
    /\ manifest = << >>
    /\ placed = << >>
    /\ prev = {}

CallBoundaryEdges ==
    /\ pc = "call_boundary_edges"
    /\ last' = [kind |-> "edges", res |-> boundary_edges(scene.verts, scene.faces, scene.coplanar_dot)]
    /\ pc' = "returned"
    /\ UNCHANGED << scene, used, manifest, placed, prev >>

CallBoundaryEdgesFromFaces ==
    /\ pc = "call_boundary_edges_from_faces"
    /\ last' = [kind |-> "edges", res |-> boundary_edges_from_faces(scene.faces)]
    /\ pc' = "returned"
    /\ UNCHANGED << scene, used, manifest, placed, prev >>

NextEdges == CallBoundaryEdges \/ CallBoundaryEdgesFromFaces

SpecEdges == InitEdges /\ [][NextEdges]_vars

\* ---- properties of the edge functions
EdgesReturned == pc = "returned" /\ last.kind = "edges"

ResultSet == { last.res[k] : k \in 1..Len(last.res) }

\* corners of the cube joined by a cube edge differ in exactly one coordinate
CubeEdgeSet ==
    { << i, j >> \in (0..7) \X (0..7) :
        /\ i < j
        /\ Cardinality({ a \in 1..3 : CubeVerts[i + 1][a] # CubeVerts[j + 1][a] }) = 1 }

IsCubeInput == scene.kind = "tri" /\ scene.verts = CubeVerts /\ scene.faces = CubeTris

\* C12: boundary_edges on the triangulated cube returns the 12 cube edges
\* and no face diagonal.
C12_CubeEdges ==
    (EdgesReturned /\ IsCubeInput) =>
        /\ Len(last.res) = 12
        /\ ResultSet = CubeEdgeSet

C12_Witness ==
    /\ EdgesReturned
    /\ IsCubeInput
    /\ scene.coplanar_dot = DefaultCoplanarDot
    /\ Cardinality(CubeEdgeSet) = 12
    /\ Len(edge_faces(CubeTris).keys) = 18
    /\ ResultSet = CubeEdgeSet

\* the undirected edges of the input's faces and the faces incident to one
SidesOf(face) == { << face[k], face[(k % Len(face)) + 1] >> : k \in 1..Len(face) }

AllEdges ==
    { << Min2(sd[1], sd[2]), Max2(sd[1], sd[2]) >> :
        sd \in UNION { SidesOf(scene.faces[k]) : k \in 1..Len(scene.faces) } }

Incident(e) ==
    { k \in 1..Len(scene.faces) : \E sd \in SidesOf(scene.faces[k]) : { sd[1], sd[2] } = { e[1], e[2] } }

\* abs(n0 . n1) < coplanar_dot for the unit normals of two faces of the
\* input; the unit normal of a triangle without area is the zero vector
UnitNormalsApart(k0, k1) ==
    LET n0 == TriNormal(scene.verts, scene.faces[k0])
        n1 == TriNormal(scene.verts, scene.faces[k1])
        c == scene.coplanar_dot
    IN  IF IsZero3(n0) \/ IsZero3(n1) THEN c.num > 0
        ELSE (Dot3(n0, n1) * c.den) * (Dot3(n0, n1) * c.den) < c.num * c.num * Dot3(n0, n0) * Dot3(n1, n1)

\* C18: boundary_edges keeps an edge with one incident triangle, and keeps an
\* edge with two incident triangles exactly when their unit normals satisfy
\* abs(n0 . n1) < coplanar_dot; no edge of another kind is invented.
C18_KeepRule ==
    (EdgesReturned /\ scene.kind = "tri") =>
        /\ ResultSet \subseteq AllEdges
        /\ \A e \in AllEdges :
              /\ Cardinality(Incident(e)) = 1 => e \in ResultSet
              /\ Cardinality(Incident(e)) = 2 =>
                    (e \in ResultSet <=>
                        \E k0, k1 \in Incident(e) : k0 < k1 /\ UnitNormalsApart(k0, k1))

\* two triangles over the edge (1, 2), tilted by less than the threshold 0.9
\* allows but more than 0.999 does: dropped under 0.9; the outer edges stay
C18_Witness ==
    /\ EdgesReturned
    /\ scene.kind = "tri"
    /\ scene.verts = PatchVerts(<<2, 2, 1>>)
    /\ scene.faces = << <<0, 1, 2>>, <<1, 3, 2>> >>
    /\ scene.coplanar_dot = [num |-> 9, den |-> 10]
    /\ << 1, 2 >> \notin ResultSet
    /\ << 0, 1 >> \in ResultSet
    /\ LET kept == boundary_edges(scene.verts, scene.faces, DefaultCoplanarDot)
       IN  \E k \in 1..Len(kept) : kept[k] = << 1, 2 >>

StrictlySorted(list) ==
    \A k \in 1..(Len(list) - 1) : PairLess(list[k], list[k + 1])

\* C19: boundary_edges_from_faces returns the unordered pairs of cyclically
\* consecutive vertices of the faces, each once, as a strictly increasing
\* list of (i, j) with i < j; boundary_edges returns its edges in that form.
C19_SortedPairs ==
    EdgesReturned =>
        /\ StrictlySorted(last.res)
        /\ \A k \in 1..Len(last.res) : last.res[k][1] < last.res[k][2]
        /\ scene.kind = "faces" => ResultSet = AllEdges

C19_Witness ==
    /\ EdgesReturned
    /\ scene.kind = "faces"
    /\ scene.faces = CubeQuads
    /\ Len(last.res) = 12
    /\ ResultSet = CubeEdgeSet
    /\ last.res[1] = << 0, 1 >>
    /\ last.res[12] = << 6, 7 >>

\* ======================================================================
\* Shape topology: make_shape_topology and the functions it calls
\* ======================================================================
\* Coordinates of the solids are numbers a + b * phi, phi = (1 + sqrt(5)) / 2,
\* kept exactly as pairs <<a, b>> (phi * phi = phi + 1).

\* ---- bounds of the shape model
MaxSubdivisions == 3
MaxRadius == 2

PhiAdd(p, q) == << p[1] + q[1], p[2] + q[2] >>
PhiSub(p, q) == << p[1] - q[1], p[2] - q[2] >>
PhiMul(p, q) == << p[1] * q[1] + p[2] * q[2], p[1] * q[2] + p[2] * q[1] + p[2] * q[2] >>

\* sign of a + b * phi = ((2a + b) + b * sqrt(5)) / 2
PhiSign(p) ==
    LET x == 2 * p[1] + p[2]
        y == p[2]
    IN  IF x = 0 /\ y = 0 THEN 0
        ELSE IF x >= 0 /\ y >= 0 THEN 1
        ELSE IF x <= 0 /\ y <= 0 THEN -1
        ELSE IF x > 0 THEN (IF x * x > 5 * y * y THEN 1 ELSE -1)
        ELSE (IF 5 * y * y > x * x THEN 1 ELSE -1)

PhiInt(n) == << n, 0 >>
PhiZero == << 0, 0 >>
PhiOne == << 1, 0 >>
Phi == << 0, 1 >>
PhiNeg == << 0, -1 >>

V3Add(u, v) == << PhiAdd(u[1], v[1]), PhiAdd(u[2], v[2]), PhiAdd(u[3], v[3]) >>
V3Sub(u, v) == << PhiSub(u[1], v[1]), PhiSub(u[2], v[2]), PhiSub(u[3], v[3]) >>
V3Scale(u, c) == << PhiMul(u[1], c), PhiMul(u[2], c), PhiMul(u[3], c) >>
V3Dot(u, v) == PhiAdd(PhiAdd(PhiMul(u[1], v[1]), PhiMul(u[2], v[2])), PhiMul(u[3], v[3]))
V3Cross(u, v) ==
    << PhiSub(PhiMul(u[2], v[3]), PhiMul(u[3], v[2])),
       PhiSub(PhiMul(u[3], v[1]), PhiMul(u[1], v[3])),
       PhiSub(PhiMul(u[1], v[2]), PhiMul(u[2], v[1])) >>

V3Int(x, y, z) == << PhiInt(x), PhiInt(y), PhiInt(z) >>

\* a vertex is the vector dir * num / sqrt(den2); a vertex made by mid() of
\* the subdivision is the unit vector to the midpoint of vertices i and j of
\* the list, times num (mid = <<i, j>>, i < j)
Vertex(dir, num, den2) == [dir |-> dir, num |-> num, den2 |-> den2, mid |-> << >>]
MidVertex(i, j, radius) == [dir |-> << >>, num |-> radius, den2 |-> << >>, mid |-> EdgeKey(i, j)]

\* mutant of scale_to_radius: the vectors are returned as they are
scale_to_radius_Unscaled(verts, radius) ==
    [k \in 1..Len(verts) |-> Vertex(verts[k], 1, PhiOne)]

\* s = radius / verts[0].length; v * s for every v
scale_to_radius(verts, radius) ==
    IF Len(verts) = 0 THEN verts
    ELSE LET base_len2 == V3Dot(verts[1], verts[1])
         IN  IF base_len2 = PhiZero
             THEN [k \in 1..Len(verts) |-> Vertex(verts[k], 1, PhiOne)]
             ELSE [k \in 1..Len(verts) |-> Vertex(verts[k], radius, base_len2)]

Mesh(verts, faces) == [verts |-> verts, faces |-> faces]

IcoBaseVerts ==
    << << PhiInt(-1), Phi, PhiZero >>, << PhiOne, Phi, PhiZero >>,
       << PhiInt(-1), PhiNeg, PhiZero >>, << PhiOne, PhiNeg, PhiZero >>,
       << PhiZero, PhiInt(-1), Phi >>, << PhiZero, PhiOne, Phi >>,
       << PhiZero, PhiInt(-1), PhiNeg >>, << PhiZero, PhiOne, PhiNeg >>,
       << Phi, PhiZero, PhiInt(-1) >>, << Phi, PhiZero, PhiOne >>,
       << PhiNeg, PhiZero, PhiInt(-1) >>, << PhiNeg, PhiZero, PhiOne >> >>

IcoFaces ==
    << <<0, 11, 5>>, <<0, 5, 1>>, <<0, 1, 7>>, <<0, 7, 10>>, <<0, 10, 11>>,
       <<1, 5, 9>>, <<5, 11, 4>>, <<11, 10, 2>>, <<10, 7, 6>>, <<7, 1, 8>>,
       <<3, 9, 4>>, <<3, 4, 2>>, <<3, 2, 6>>, <<3, 6, 8>>, <<3, 8, 9>>,
       <<4, 9, 5>>, <<2, 4, 11>>, <<6, 2, 10>>, <<8, 6, 7>>, <<9, 8, 1>> >>

icosahedron_topology(radius) == Mesh(scale_to_radius(IcoBaseVerts, radius), IcoFaces)

TetraBaseVerts == << V3Int(1, 1, 1), V3Int(-1, -1, 1), V3Int(-1, 1, -1), V3Int(1, -1, -1) >>
TetraFaces == << <<0, 1, 2>>, <<0, 3, 1>>, <<0, 2, 3>>, <<1, 3, 2>> >>

tetrahedron_topology(radius) == Mesh(scale_to_radius(TetraBaseVerts, radius), TetraFaces)

CubeBaseVerts == [k \in 1..8 |-> V3Int(CubeVerts[k][1], CubeVerts[k][2], CubeVerts[k][3])]

cube_topology(radius) == Mesh(scale_to_radius(CubeBaseVerts, radius), CubeQuads)

OctaBaseVerts ==
    << V3Int(1, 0, 0), V3Int(-1, 0, 0), V3Int(0, 1, 0), V3Int(0, -1, 0), V3Int(0, 0, 1), V3Int(0, 0, -1) >>
OctaFaces ==
    << <<0, 2, 4>>, <<2, 1, 4>>, <<1, 3, 4>>, <<3, 0, 4>>,
       <<2, 0, 5>>, <<1, 2, 5>>, <<3, 1, 5>>, <<0, 3, 5>> >>

octahedron_topology(radius) == Mesh(scale_to_radius(OctaBaseVerts, radius), OctaFaces)

\* ---- subdivide_to_icosphere
\* mutant of MidKey: the cache is keyed by the ordered pair
MidKey_Directed(i, j) == << i, j >>

\* key = (i, j) if i < j else (j, i)
MidKey(i, j) == IF i < j THEN << i, j >> ELSE << j, i >>

\* the calls mid(a, b), mid(b, c), mid(c, a) of the loop over faces, in order
MidCalls(faces) ==
    [n \in 1..(3 * Len(faces)) |->
        LET f == faces[((n - 1) \div 3) + 1]
            e == ((n - 1) % 3) + 1
        IN  MidKey(f[e], f[(e % 3) + 1])]

\* one pass of the loop "for _ in range(subdivisions)": a call of mid() with
\* a key not in the cache appends a vertex and caches its index
SubdividePass(mesh, radius) ==
    LET calls == MidCalls(mesh.faces)
        miss == { n \in DOMAIN calls : \A m \in 1..(n - 1) : calls[m] # calls[n] }
        n0 == Len(mesh.verts)
        cache == [key \in { calls[n] : n \in miss } |->
                     LET n == CHOOSE m \in miss : calls[m] = key
                     IN  n0 + Cardinality({ m \in miss : m <= n }) - 1]
        appended == [idx \in { cache[key] : key \in DOMAIN cache } |->
                        LET key == CHOOSE k \in DOMAIN cache : cache[k] = idx
                        IN  MidVertex(key[1], key[2], radius)]
        child(f, ab, bc, ca) ==
            << << f[1], ab, ca >>, << f[2], bc, ab >>, << f[3], ca, bc >>, << ab, bc, ca >> >>
    IN  Mesh([k \in 1..(n0 + Cardinality(miss)) |-> IF k <= n0 THEN mesh.verts[k] ELSE appended[k - 1]],
             [n \in 1..(4 * Len(mesh.faces)) |->
                 LET fi == ((n - 1) \div 4) + 1
                     f == mesh.faces[fi]
                 IN  child(f, cache[calls[3 * fi - 2]], cache[calls[3 * fi - 1]], cache[calls[3 * fi]])[((n - 1) % 4) + 1]])

RECURSIVE subdivide_to_icosphere(_, _, _)
subdivide_to_icosphere(mesh, radius, subdivisions) ==
    IF Max2(0, subdivisions) = 0 THEN mesh
    ELSE SubdividePass(subdivide_to_icosphere(mesh, radius, subdivisions - 1), radius)

\* ---- dodecahedron_topology
\* Normalising divides by a positive length and changes neither a sign nor
\* an angle, so axis, x_axis, y_axis and u are kept unnormalised, each
\* multiplied through by axis.axis where the code divides by it.  The face
\* centres of the icosahedron all have one length, so the normalised centres
\* are their sums times one positive factor.

\* incident[vi]: the faces that list vertex vi, in face order
IncidentFaces(faces, vi) ==
    LET at == { fi \in 1..Len(faces) : \E e \in 1..3 : faces[fi][e] = vi }
    IN  [k \in 1..Cardinality(at) |-> KthSmallest(at, k) - 1]

\* ctr = (ico_verts[a] + ico_verts[b] + ico_verts[c]) / 3.0, up to its length
FaceCentreDir(verts, f) ==
    V3Add(V3Add(verts[f[1] + 1].dir, verts[f[2] + 1].dir), verts[f[3] + 1].dir)

\* (u.dot(y_axis), u.dot(x_axis)) for the face centre dv seen from axis
AngleKey(axis, dv) ==
    LET a2 == V3Dot(axis, axis)
        x_small == PhiSign(PhiSub(PhiMul(PhiInt(81), a2), PhiMul(PhiInt(100), PhiMul(axis[1], axis[1])))) > 0
        ref == IF x_small THEN V3Int(1, 0, 0) ELSE V3Int(0, 1, 0)
        x0 == V3Sub(V3Scale(ref, a2), V3Scale(axis, V3Dot(ref, axis)))
        x_axis == IF x0 = V3Int(0, 0, 0)
                  THEN V3Sub(V3Scale(V3Int(0, 0, 1), a2), V3Scale(axis, axis[3]))
                  ELSE x0
        y_axis == V3Cross(axis, x_axis)
        u == V3Sub(V3Scale(dv, a2), V3Scale(axis, V3Dot(dv, axis)))
    IN  << V3Dot(u, y_axis), V3Dot(u, x_axis) >>

\* the part of (-pi, pi] in which atan2(key[1], key[2]) lies:
\* 0: below the x axis, 1: angle 0, 2: above the x axis, 3: angle pi
AngleClass(key) ==
    LET sy == PhiSign(key[1])
        sx == PhiSign(key[2])
    IN  IF sy < 0 THEN 0 ELSE IF sy > 0 THEN 2 ELSE IF sx >= 0 THEN 1 ELSE 3

\* atan2 of k1 < atan2 of k2
AngleLess(k1, k2) ==
    \/ AngleClass(k1) < AngleClass(k2)
    \/ /\ AngleClass(k1) = AngleClass(k2)
       /\ AngleClass(k1) \in {0, 2}
       /\ PhiSign(PhiSub(PhiMul(k1[2], k2[1]), PhiMul(k1[1], k2[2]))) > 0

\* angs.sort(key=lambda t: t[0]); pent = [idx for _, idx in angs]
SortByAngle(face_ids, keys) ==
    [k \in 1..Len(face_ids) |->
        face_ids[CHOOSE i \in 1..Len(face_ids) :
                     Cardinality({ j \in 1..Len(face_ids) :
                                     AngleLess(keys[j], keys[i])
                                     \/ (~AngleLess(keys[i], keys[j]) /\ j < i) }) = k - 1]]

Reversed(seq) == [k \in 1..Len(seq) |-> seq[Len(seq) + 1 - k]]

\* mutant of Pentagon: the pentagon of vertex 0 is wound the other way round
Pentagon_Clockwise0(ico, centres, vi) ==
    LET face_ids == IncidentFaces(ico.faces, vi)
        axis == ico.verts[vi + 1].dir
        keys == [k \in 1..Len(face_ids) |-> AngleKey(axis, centres[face_ids[k] + 1])]
        pent == SortByAngle(face_ids, keys)
    IN  IF vi = 0 THEN Reversed(pent) ELSE pent

\* the pentagon of icosahedron vertex vi, wound to face outward
Pentagon(ico, centres, vi) ==
    LET face_ids == IncidentFaces(ico.faces, vi)
        axis == ico.verts[vi + 1].dir
        keys == [k \in 1..Len(face_ids) |-> AngleKey(axis, centres[face_ids[k] + 1])]
        pent == SortByAngle(face_ids, keys)
        v0 == centres[pent[1] + 1]
        v1 == centres[pent[2] + 1]
        v2 == centres[pent[3] + 1]
        n == V3Cross(V3Sub(v1, v0), V3Sub(v2, v0))
    IN  IF PhiSign(V3Dot(n, axis)) < 0 THEN Reversed(pent) ELSE pent

\* mutant of HasPentagon: a pentagon is built for no vertex of index 11
HasPentagon_Skip11(ico, vi) == Len(IncidentFaces(ico.faces, vi)) = 5 /\ vi # 11

\* if len(face_ids) != 5: continue
HasPentagon(ico, vi) == Len(IncidentFaces(ico.faces, vi)) = 5

dodecahedron_topology(radius) ==
    LET ico == icosahedron_topology(1)
        centres == [fi \in 1..Len(ico.faces) |-> FaceCentreDir(ico.verts, ico.faces[fi])]
        owners == { vi \in 0..(Len(ico.verts) - 1) : HasPentagon(ico, vi) }
    IN  Mesh([fi \in 1..Len(centres) |-> Vertex(centres[fi], radius, V3Dot(centres[fi], centres[fi]))],
             [k \in 1..Cardinality(owners) |-> Pentagon(ico, centres, KthSmallest(owners, k))])

\* mutant of ActualSubdivisions: the manifest's number is the number of passes
ActualSubdivisions_AsGiven(sub) == Max2(0, sub)

\* actual = max(0, sub - 1): 1 -> no subdivision, 2 -> one pass, ...
ActualSubdivisions(sub) == Max2(0, sub - 1)

ShapeTypes == { "icosahedron", "icosphere", "tetrahedron", "cube", "octahedron", "dodecahedron", "sphere" }

ShapeCfg(type, subdivisions) == [type |-> type, subdivisions |-> subdivisions]

make_shape_topology(shape_cfg, radius) ==
    LET st == shape_cfg.type
        sub == shape_cfg.subdivisions
    IN  CASE st = "icosahedron" -> icosahedron_topology(radius)
          [] st = "icosphere" -> subdivide_to_icosphere(icosahedron_topology(radius), radius, ActualSubdivisions(sub))
          [] st = "tetrahedron" -> tetrahedron_topology(radius)
          [] st = "cube" -> cube_topology(radius)
          [] st = "octahedron" -> octahedron_topology(radius)
          [] st = "dodecahedron" -> dodecahedron_topology(radius)
          [] OTHER -> icosahedron_topology(radius)

\* -- direct calls of make_shape_topology; scene holds the arguments, last
\* the returned (verts, faces)
ShapeInput(cfg, radius) == [kind |-> "shape", cfg |-> cfg, radius |-> radius]

InitShapes ==
    /\ pc = "call_make_shape_topology"
    /\ scene \in { ShapeInput(ShapeCfg(t, n), r) : t \in ShapeTypes, n \in 0..MaxSubdivisions, r \in 1..MaxRadius }
    /\ used = << >>
    /\ last = NoCall
    /\ manifest = << >>
    /\ placed = << >>
    /\ prev = {}

CallMakeShapeTopology ==
    /\ pc = "call_make_shape_topology"
    /\ last' = [kind |-> "mesh", res |-> make_shape_topology(scene.cfg, scene.radius)]
    /\ pc' = "returned"
    /\ UNCHANGED << scene, used, manifest, placed, prev >>

NextShapes == CallMakeShapeTopology

SpecShapes == InitShapes /\ [][NextShapes]_vars

\* ---- properties of the shapes
ShapeReturned == pc = "returned" /\ last.kind = "mesh"

RECURSIVE Pow4(_)
Pow4(n) == IF n <= 0 THEN 1 ELSE 4 * Pow4(n - 1)

IsTriangle(f) == Len(f) = 3 /\ Cardinality({ f[1], f[2], f[3] }) = 3

\* C13: for subdivisions n >= 1 the icosphere has 20 * 4^(n-1) faces, all
\* triangles.
C13_IcosphereFaces ==
    (ShapeReturned /\ scene.cfg.type = "icosphere" /\ scene.cfg.subdivisions >= 1) =>
        /\ Len(last.res.faces) = 20 * Pow4(scene.cfg.subdivisions - 1)
        /\ \A k \in 1..Len(last.res.faces) : IsTriangle(last.res.faces[k])

C13_Witness ==
    /\ ShapeReturned
    /\ scene.cfg.type = "icosphere"
    /\ scene.cfg.subdivisions = 3
    /\ Len(last.res.faces) = 320

\* C14: the icosphere with subdivisions = 1 has 12 vertices and 20 faces, and
\* its vertex and face lists are those of the icosahedron of the same radius.
C14_IcosphereOneIsIcosahedron ==
    (ShapeReturned /\ scene.cfg.type = "icosphere" /\ scene.cfg.subdivisions = 1) =>
        /\ Len(last.res.verts) = 12
        /\ Len(last.res.faces) = 20
        /\ last.res = make_shape_topology(ShapeCfg("icosahedron", scene.cfg.subdivisions), scene.radius)
        /\ \A k \in 1..Len(last.res.verts) : last.res.verts[k].mid = << >>

C14_Witness ==
    /\ ShapeReturned
    /\ scene.cfg = ShapeCfg("icosphere", 1)
    /\ scene.radius = 2
    /\ last.res.faces = IcoFaces
    /\ last.res.verts[12] = Vertex(<< PhiNeg, PhiZero, PhiOne >>, 2, << 2, 1 >>)

\* the number of faces of the mesh that list vertex index vi
FacesWith(mesh, vi) ==
    Cardinality({ k \in 1..Len(mesh.faces) : \E e \in 1..Len(mesh.faces[k]) : mesh.faces[k][e] = vi })

\* C15: the dodecahedron has 20 vertices and 12 faces, every face lists 5
\* distinct vertex indices, and every vertex index is in exactly 3 faces.
C15_Dodecahedron ==
    (ShapeReturned /\ scene.cfg.type = "dodecahedron") =>
        /\ Len(last.res.verts) = 20
        /\ Len(last.res.faces) = 12
        /\ \A k \in 1..Len(last.res.faces) :
              /\ Len(last.res.faces[k]) = 5
              /\ Cardinality({ last.res.faces[k][e] : e \in 1..5 }) = 5
              /\ \A e \in 1..5 : last.res.faces[k][e] \in 0..19
        /\ \A vi \in 0..19 : FacesWith(last.res, vi) = 3

\* the pentagon of icosahedron vertex 1 goes round its five faces by angle,
\* and every vertex is a face centre scaled to the radius
C15_Witness ==
    /\ ShapeReturned
    /\ scene.cfg.type = "dodecahedron"
    /\ scene.radius = 2
    /\ last.res.faces[2] = << 1, 5, 19, 9, 2 >>
    /\ \A k \in 1..20 : last.res.verts[k].num = 2 /\ last.res.verts[k].den2 = << 6, 9 >>

\* the vertex has length radius: |dir|^2 * num^2 = radius^2 * den2
HasLength(v, radius) ==
    /\ v.mid = << >>
    /\ PhiMul(V3Dot(v.dir, v.dir), PhiInt(v.num * v.num)) = PhiMul(PhiInt(radius * radius), v.den2)

ScaledShapes == { "icosahedron", "tetrahedron", "cube", "octahedron" }

BaseVertsOf(type) ==
    CASE type = "icosahedron" -> IcoBaseVerts
      [] type = "tetrahedron" -> TetraBaseVerts
      [] type = "cube" -> CubeBaseVerts
      [] type = "octahedron" -> OctaBaseVerts

\* C16: every vertex of the icosahedron, tetrahedron, cube and octahedron has
\* length radius; the lists given to scale_to_radius have vertices of one length.
C16_VerticesOnSphere ==
    (ShapeReturned /\ scene.cfg.type \in ScaledShapes) =>
        /\ \A k \in 1..Len(last.res.verts) : HasLength(last.res.verts[k], scene.radius)
        /\ \A k \in 1..Len(BaseVertsOf(scene.cfg.type)) :
              V3Dot(BaseVertsOf(scene.cfg.type)[k], BaseVertsOf(scene.cfg.type)[k])
                  = V3Dot(BaseVertsOf(scene.cfg.type)[1], BaseVertsOf(scene.cfg.type)[1])

C16_Witness ==
    /\ ShapeReturned
    /\ scene.cfg.type = "cube"
    /\ scene.radius = 2
    /\ Len(last.res.verts) = 8
    /\ last.res.verts[7] = Vertex(V3Int(1, 1, 1), 2, PhiInt(3))
    /\ HasLength(last.res.verts[7], 2)
    /\ ~HasLength(last.res.verts[7], 1)

\* the undirected edges of a triangle list
UndirectedEdges(faces) ==
    { EdgeKey(faces[k][e], faces[k][(e % 3) + 1]) : k \in 1..Len(faces), e \in 1..3 }

\* the mesh one pass earlier
BeforeLastPass ==
    make_shape_topology(ShapeCfg("icosphere", scene.cfg.subdivisions - 1), scene.radius)

\* children 4fi-3 .. 4fi of parent face fi use, on each side of the parent,
\* the vertex made for that side's undirected edge
ChildrenShareMidpoints(parent, mesh) ==
    \A fi \in 1..Len(parent.faces) :
        LET f == parent.faces[fi]
            c1 == mesh.faces[4 * fi - 3]
            c2 == mesh.faces[4 * fi - 2]
            c3 == mesh.faces[4 * fi - 1]
            c4 == mesh.faces[4 * fi]
            ab == c1[2]
            bc == c2[2]
            ca == c3[2]
        IN  /\ c1 = << f[1], ab, ca >> /\ c2 = << f[2], bc, ab >>
            /\ c3 = << f[3], ca, bc >> /\ c4 = << ab, bc, ca >>
            /\ mesh.verts[ab + 1].mid = EdgeKey(f[1], f[2])
            /\ mesh.verts[bc + 1].mid = EdgeKey(f[2], f[3])
            /\ mesh.verts[ca + 1].mid = EdgeKey(f[3], f[1])

\* C20: a subdivision pass appends one vertex per undirected edge of the mesh
\* it subdivides (no midpoint twice), after k passes there are 10 * 4^k + 2
\* vertices, and the children of the faces on both sides of an edge use the
\* one vertex made for it.
C20_OneMidpointPerEdge ==
    (ShapeReturned /\ scene.cfg.type = "icosphere") =>
        LET k == ActualSubdivisions(scene.cfg.subdivisions)
            n == Len(last.res.verts)
        IN  /\ n = 10 * Pow4(k) + 2
            /\ k >= 1 =>
                  LET parent == BeforeLastPass
                      n0 == Len(parent.verts)
                  IN  /\ n = n0 + Cardinality(UndirectedEdges(parent.faces))
                      /\ \A i, j \in (n0 + 1)..n : i # j => last.res.verts[i].mid # last.res.verts[j].mid
                      /\ ChildrenShareMidpoints(parent, last.res)

C20_Witness ==
    /\ ShapeReturned
    /\ scene.cfg = ShapeCfg("icosphere", 3)
    /\ Len(last.res.verts) = 162
    /\ Len(BeforeLastPass.verts) = 42
    /\ Cardinality(UndirectedEdges(BeforeLastPass.faces)) = 120
    /\ \E k1, k2 \in 1..Len(last.res.faces) :
          /\ (k1 - 1) \div 4 # (k2 - 1) \div 4
          /\ \E e1, e2 \in 1..3 : last.res.faces[k1][e1] = 161 /\ last.res.faces[k2][e2] = 161

\* ports of the build with an explicit attach.index within the vertex range
ForcedPorts(b) ==
    { i \in PortsOn(b) : SpecAt(i).index # {} /\ ~StaleIndex(SpecAt(i), Len(scene.verts)) }

\* C27: a port with an explicit in-range attach.index is placed as if no
\* vertex were claimed, its vertex is recorded in the boundary's used set, and
\* a later auto-placed port on that boundary does not take that vertex while
\* another unclaimed vertex can be scored.
C27_ForcedRecorded ==
    \A b \in Boundaries : \A j \in ForcedPorts(b) :
        /\ placed[j] = Entry(Object(manifest[j]),
                             choose_vertex_and_length_for_port(BoundaryScene(scene, b), SpecAt(j), {}))
        /\ placed[j].index \in UsedSetFor(used, b)
        /\ \A i \in AutoUniquePorts(b) :
               (i > j /\ HasFreeSite(i)) => placed[i].index # placed[j].index

\* an auto port takes vertex 1, the port with index 1 lands on it again, and
\* the next auto port goes elsewhere
C27_Witness ==
    /\ Len(placed) = 3
    /\ manifest = << "portA", "portA_index1", "portA" >>
    /\ placed[1].index = 1
    /\ placed[2].index = 1
    /\ placed[2].path # "fallback"
    /\ HasFreeSite(3)
    /\ placed[3].index # 1
    /\ used["A"] = { 1, placed[3].index }

\* C25: a label's returned direction is the inverse of its face's outward
\* direction for direction IN and the outward direction for OUT, and its tip
\* is base + direction * (base_offset + length), on every return path.
C25_LabelDirection ==
    (IsLabelCall /\ ~last.res.raised) =>
        LET outward == scene.faces[last.res.p.index + 1].step
            dir == IF last.spec.direction = "IN" THEN Neg(outward) ELSE outward
        IN  /\ last.res.p.dir = dir
            /\ last.res.p.tip = TipNdc(last.res.p.base, last.res.p.dir,
                                       last.spec.base_offset + last.res.p.length)

\* ---- closed, consistently wound surfaces
\* the positions (face, corner) of a face list; faces have 3 to 5 corners
Slots(faces) == { sl \in (1..Len(faces)) \X (1..5) : sl[2] <= Len(faces[sl[1]]) }

\* the edge leaving corner sl[2] of face sl[1], in the face's winding
DirEdge(faces, sl) ==
    << faces[sl[1]][sl[2]], faces[sl[1]][(sl[2] % Len(faces[sl[1]])) + 1] >>

DirectedEdges(faces) == { DirEdge(faces, sl) : sl \in Slots(faces) }

\* C26: in every shape make_shape_topology builds, no directed edge occurs
\* twice and every directed edge has its reverse in another face: each
\* undirected edge is shared by exactly 2 faces, once in each direction.
C26_ClosedSurface ==
    ShapeReturned =>
        LET D == DirectedEdges(last.res.faces)
        IN  /\ Cardinality(D) = Cardinality(Slots(last.res.faces))
            /\ \A d \in D : d[1] # d[2] /\ << d[2], d[1] >> \in D

\* the dodecahedron: 60 directed edges, the edge 1-5 of pentagon 2 both ways
C26_Witness ==
    /\ ShapeReturned
    /\ scene.cfg.type = "dodecahedron"
    /\ Cardinality(DirectedEdges(last.res.faces)) = 60
    /\ DirEdge(last.res.faces, << 2, 1 >>) = << 1, 5 >>
    /\ \E sl \in Slots(last.res.faces) : sl[1] # 2 /\ DirEdge(last.res.faces, sl) = << 5, 1 >>

\* ======================================================================
\* outside_distance_to_bbox_px, called on its own
\* ======================================================================
\* ---- bound of the pixel grid
MaxPx == 4

Pixels == (0..MaxPx) \X (0..MaxPx)

\* <<minx, maxx, miny, maxy>> of a set of projected points
Boxes ==
    { b \in (0..MaxPx) \X (0..MaxPx) \X (0..MaxPx) \X (0..MaxPx) : b[1] <= b[2] /\ b[3] <= b[4] }

BboxInput(p, bbox) == [kind |-> "bbox", p |-> p, bbox |-> bbox]

InitBbox ==
    /\ pc = "call_outside_distance_to_bbox_px"
    /\ scene \in { BboxInput(p, b) : p \in Pixels, b \in Boxes }
    /\ used = << >>
    /\ last = NoCall
    /\ manifest = << >>
    /\ placed = << >>
    /\ prev = {}

CallOutsideDistance ==
    /\ pc = "call_outside_distance_to_bbox_px"
    /\ last' = [kind |-> "distance", res |-> outside_distance_to_bbox_px(scene.p, scene.bbox)]
    /\ pc' = "returned"
    /\ UNCHANGED << scene, used, manifest, placed, prev >>

NextBbox == CallOutsideDistance

SpecBbox == InitBbox /\ [][NextBbox]_vars

\* ---- properties of outside_distance_to_bbox_px
DistanceReturned == pc = "returned" /\ last.kind = "distance"

InsideOrOn(p, b) == b[1] <= p[1] /\ p[1] <= b[2] /\ b[3] <= p[2] /\ p[2] <= b[4]

\* squared distance from p to the nearest point of the box
NearestSquared(p, b) ==
    SetMin({ (p[1] - q[1]) * (p[1] - q[1]) + (p[2] - q[2]) * (p[2] - q[2]) :
               q \in { r \in Pixels : InsideOrOn(r, b) } })

\* distance from a point of the box to its nearest side
DepthInside(p, b) == SetMin({ p[1] - b[1], b[2] - p[1], p[2] - b[3], b[4] - p[2] })

\* C22: the result is <= 0 exactly for a point inside or on the box, and is
\* then minus the distance to the nearest side; outside the box it is the
\* distance to the nearest point of the box (whole pixels) and > 0.
C22_OutsideDistance ==
    DistanceReturned =>
        /\ (last.res <= 0) <=> InsideOrOn(scene.p, scene.bbox)
        /\ InsideOrOn(scene.p, scene.bbox) => last.res = 0 - DepthInside(scene.p, scene.bbox)
        /\ ~InsideOrOn(scene.p, scene.bbox) =>
              /\ last.res > 0
              /\ last.res * last.res <= NearestSquared(scene.p, scene.bbox)
              /\ (last.res + 1) * (last.res + 1) > NearestSquared(scene.p, scene.bbox)

\* a point past a corner of a box: 3 pixels right of it and 4 above
C22_Witness ==
    /\ DistanceReturned
    /\ scene.p = << 4, 4 >>
    /\ scene.bbox = << 0, 1, 0, 0 >>
    /\ ~InsideOrOn(scene.p, scene.bbox)
    /\ last.res = 5

\* ======================================================================
\* The placement functions called with varied length settings
\* ======================================================================
\* length_min and length_max six units apart (divisible by length_samples - 1
\* for 2, 3 and 4 samples), in either order; 0 to 4 samples; AUTO or fixed 3
LengthEnds == { << 1, 1 >>, << 1, 7 >>, << 7, 1 >>, << 7, 7 >> }
SampleCounts == 0..4
LengthCfgs == { {}, {3} }

WithLengths(spec, ends, samples, length) ==
    [spec EXCEPT !.length_min = ends[1], !.length_max = ends[2],
                 !.length_samples = samples, !.length = length]

LengthPortSpecs ==
    { WithLengths(PortSpec({}, TRUE, TRUE, t, {}), e, n, l) :
        t \in BOOLEAN, e \in LengthEnds, n \in SampleCounts, l \in LengthCfgs }

LengthLabelSpecs ==
    { WithLengths(LabelSpec({}, d, TRUE, t, {}), e, n, l) :
        d \in { "OUT", "IN" }, t \in BOOLEAN, e \in LengthEnds, n \in SampleCounts, l \in LengthCfgs }

\* a site with room for a tip up to five units out, one with room for none,
\* one pointing straight away from the camera (every length gives the same
\* projected tip), and one on the far side of the solid
LengthSites ==
    { Site(<<4, 5, 4>>, <<1, 0, 0>>, TRUE), Site(<<5, 9, 4>>, <<0, 1, 0>>, TRUE),
      Site(<<3, 5, 4>>, <<0, 0, 1>>, TRUE), Site(<<4, 5, 6>>, <<-1, 0, 1>>, FALSE) }

InitLengths ==
    /\ \/ /\ pc = "call_port"
          /\ scene \in { Scene(v, << Site(<<6, 5, 4>>, <<1, 0, 0>>, TRUE) >>) : v \in Tables(LengthSites, 2) }
          /\ used \in [{"A"} -> SUBSET { 0, 1 }]
       \/ /\ pc = "call_label"
          /\ scene \in { Scene(<< Site(<<4, 5, 4>>, <<1, 0, 0>>, TRUE) >>, f) : f \in Tables(LengthSites, 2) }
          /\ used = [b \in {"A"} |-> {}]
    /\ last = NoCall
    /\ manifest = << >>
    /\ placed = << >>
    /\ prev = {}

NextLengths ==
    \/ \E spec \in LengthPortSpecs : PlacePort(spec)
    \/ \E spec \in LengthLabelSpecs : PlaceLabel(spec)

SpecLengths == InitLengths /\ [][NextLengths]_vars

\* ---- properties of the length selection
\* max(1, length_samples) evenly spaced points of [length_min, length_max],
\* length_max raised to length_min when smaller
EvenlySpaced(spec) ==
    LET lo == spec.length_min
        hi == Max2(spec.length_min, spec.length_max)
    IN  IF spec.length_samples <= 1 THEN { lo }
        ELSE { L \in lo..hi : \E k \in 0..(spec.length_samples - 1) :
                   (L - lo) * (spec.length_samples - 1) = k * (hi - lo) }

\* the lengths the code samples
SampledLengths(spec) ==
    { SampleLength(spec, s) : s \in 0..(Max2(1, spec.length_samples) - 1) }

\* C23: without a fixed length the lengths sampled are the max(1,
\* length_samples) evenly spaced points of [length_min, max(length_min,
\* length_max)], ends included from 2 samples on, and the returned length
\* lies in that interval; with a fixed length a scored placement has it.
C23_LengthSamples ==
    (last.kind \in { "port", "label" } /\ ~last.res.raised) =>
        LET sp == last.spec
            lo == sp.length_min
            hi == Max2(sp.length_min, sp.length_max)
        IN  /\ sp.length = {} =>
                  /\ SampledLengths(sp) = EvenlySpaced(sp)
                  /\ sp.length_samples >= 2 => { lo, hi } \subseteq SampledLengths(sp)
                  /\ (sp.length_samples >= 2 /\ hi > lo) =>
                        Cardinality(SampledLengths(sp)) = sp.length_samples
                  /\ sp.length_samples <= 1 => SampledLengths(sp) = { lo }
                  /\ lo <= last.res.p.length /\ last.res.p.length <= hi
                  /\ IsScored(last.res) => last.res.p.length \in EvenlySpaced(sp)
            /\ (sp.length # {} /\ IsScored(last.res)) => last.res.p.length = Val(sp.length)

\* four samples 1, 3, 5, 7: the tip fits the frame up to length 5, which wins
C23_Witness ==
    /\ IsPortCall
    /\ IsScored(last.res)
    /\ last.spec.length = {}
    /\ last.spec.length_samples = 4
    /\ last.spec.length_min = 1 /\ last.spec.length_max = 7
    /\ last.spec.require_tip_in_frame
    /\ SampledLengths(last.spec) = { 1, 3, 5, 7 }
    /\ last.res.p.length = 5

\* the sites the returned placement was chosen among, by 1-based position
PoolSites ==
    IF IsPortCall
    THEN LET forced_idx == PortForcedIdx(scene.verts, last.spec)
         IN  { k \in 1..Len(scene.verts) :
                 /\ forced_idx # {} => k - 1 = Val(forced_idx)
                 /\ ndc_in_frame(scene.verts[k].ndc)
                 /\ (last.spec.require_visible_base /\ last.res.path # "relaxed") => scene.verts[k].vis
                 /\ (last.res.path \in { "unused", "relaxed" } /\ last.spec.unique_vertices /\ forced_idx = {})
                        => (k - 1) \notin last.used_in }
    ELSE { k \in 1..Len(scene.faces) :
             /\ last.spec.index # {} => k - 1 = Val(last.spec.index)
             /\ ndc_in_frame(scene.faces[k].ndc)
             /\ last.spec.require_visible_base => scene.faces[k].vis }

CandidateEval(k, L) ==
    IF IsPortCall
    THEN EvalPort(scene.verts[k], k - 1, L, last.spec, ReturnedBboxE, ndc_to_px(scene.center))
    ELSE EvalLabel(scene.faces[k], k - 1, L, last.spec, ReturnedBboxE, ndc_to_px(scene.center))

\* C30: the placement returned by the scored search has the highest score of
\* its candidates, and among the candidates with that score the lowest site
\* index and, at that site, the shortest length.
C30_FirstBestWins ==
    (last.kind \in { "port", "label" } /\ IsScored(last.res)) =>
        \A k \in PoolSites : \A L \in EvaluatedLengths(last.spec) :
            LET e == CandidateEval(k, L)
            IN  e.ok =>
                  /\ e.score <= ReturnedEval.score
                  /\ e.score = ReturnedEval.score =>
                        \/ k - 1 > last.res.p.index
                        \/ k - 1 = last.res.p.index /\ L >= last.res.p.length

\* two equal vertices pointing away from the camera: every length at either
\* vertex has the best score; vertex 0 with the shortest length is returned
C30_Witness ==
    /\ IsPortCall
    /\ IsScored(last.res)
    /\ last.spec.length = {}
    /\ last.spec.length_samples = 3
    /\ last.spec.length_min = 1 /\ last.spec.length_max = 7
    /\ last.res.p.index = 0
    /\ last.res.p.length = 1
    /\ 2 \in PoolSites
    /\ \A k \in { 1, 2 } : \A L \in { 1, 4, 7 } :
           CandidateEval(k, L).ok /\ CandidateEval(k, L).score = ReturnedEval.score

\* ======================================================================
\* create_camera_from_manifest: location and look-at target of the camera
\* ======================================================================
\* Directions are small integer vectors standing for the unit candidates; the
\* smallest angle of a candidate to the solid's axes comes from a table.
MaxDistance == 2
NumRandom == 1

V3IntAdd(a, b) == << a[1] + b[1], a[2] + b[2], a[3] + b[3] >>
V3IntScale(a, k) == << a[1] * k, a[2] * k, a[3] * k >>
Origin3 == << 0, 0, 0 >>

\* the three built-in candidates, in the order of the list
FixedCandidates == << << 1, -2, 1 >>, << -1, -2, 1 >>, << 2, -1, 1 >> >>
RandomDirs == { << 0, 1, 2 >>, << 1, 0, -1 >> }
DefaultBestDir == FixedCandidates[1]

\* pref = 0.15 * (-d.y) + 0.10 * d.z, times 20
Pref20(d) == 3 * (0 - d[2]) + 2 * d[3]
CamScore20(d, min_ang) == min_ang + Pref20(d)

\* for d in candidates: if score > best_score: best_score, best_dir = score, d
RECURSIVE BestDirFrom(_, _, _, _, _)
BestDirFrom(cands, angs, k, best_dir, best_score) ==
    IF k > Len(cands) THEN best_dir
    ELSE LET sc == CamScore20(cands[k], angs[k])
         IN  IF best_score = {} \/ sc > Val(best_score)
             THEN BestDirFrom(cands, angs, k + 1, cands[k], { sc })
             ELSE BestDirFrom(cands, angs, k + 1, best_dir, best_score)

\* target: a list of three numbers, "AUTO" (none yet), anything else the origin
ParseTarget(target_cfg) ==
    IF target_cfg.kind = "list" THEN { target_cfg.xyz }
    ELSE IF target_cfg.kind = "AUTO" THEN {}
    ELSE { Origin3 }

create_camera_from_manifest(cfg, boundary_for_auto) ==
    LET dist == cfg.distance
        target0 == ParseTarget(cfg.target)
        have_explicit_loc == cfg.location # {}
        searched == ~have_explicit_loc /\ boundary_for_auto # {}
        center_w == Val(boundary_for_auto).solid
        cands == FixedCandidates \o cfg.random
        best_dir == BestDirFrom(cands, cfg.min_ang, 1, DefaultBestDir, {})
        location ==
            IF have_explicit_loc THEN Val(cfg.location)
            ELSE IF searched THEN V3IntAdd(center_w, V3IntScale(best_dir, dist))
            ELSE << 0, 0 - dist, (dist * 4) \div 10 >>
        target1 == IF searched THEN { center_w } ELSE target0
        target2 ==
            IF target1 # {} THEN target1
            ELSE IF boundary_for_auto # {} THEN { Val(boundary_for_auto).root }
            ELSE { Origin3 }
    IN  [ location |-> location,
          look_at  |-> IF cfg.explicit_rot THEN {} ELSE target2,
          searched |-> searched,
          best_dir |-> IF searched THEN { best_dir } ELSE {} ]

TargetCfgs == { [kind |-> "AUTO", xyz |-> Origin3], [kind |-> "list", xyz |-> << 1, 0, 0 >>],
                [kind |-> "other", xyz |-> Origin3] }
CameraBoundaries == { {}, { [solid |-> Origin3, root |-> Origin3] },
                      { [solid |-> << 0, 0, 1 >>, root |-> << 0, 0, 1 >>] } }
CameraCfgs ==
    [ location : { {}, { << 3, -3, 2 >> } },
      target : TargetCfgs,
      distance : 1..MaxDistance,
      explicit_rot : BOOLEAN,
      random : [1..NumRandom -> RandomDirs],
      min_ang : [1..(3 + NumRandom) -> 0..1] ]

InitCamera ==
    /\ pc = "call_create_camera_from_manifest"
    /\ scene \in { [kind |-> "camera", cfg |-> c, boundary |-> b] : c \in CameraCfgs, b \in CameraBoundaries }
    /\ used = << >>
    /\ last = NoCall
    /\ manifest = << >>
    /\ placed = << >>
    /\ prev = {}

CallCreateCamera ==
    /\ pc = "call_create_camera_from_manifest"
    /\ last' = [kind |-> "camera", res |-> create_camera_from_manifest(scene.cfg, scene.boundary)]
    /\ pc' = "returned"
    /\ UNCHANGED << scene, used, manifest, placed, prev >>

NextCamera == CallCreateCamera

SpecCamera == InitCamera /\ [][NextCamera]_vars

\* ---- properties of the camera
CameraReturned == last.kind = "camera"

BestScoring(d) ==
    LET cands == FixedCandidates \o scene.cfg.random
    IN  \E k \in 1..Len(cands) :
            /\ cands[k] = d
            /\ \A j \in 1..Len(cands) :
                   CamScore20(cands[j], scene.cfg.min_ang[j]) <= CamScore20(cands[k], scene.cfg.min_ang[k])

\* C24: the direction search runs only without an explicit location; the
\* camera then stands at target + best direction * distance, the target being
\* the configured one when the manifest gives one.
C24_AutoCamera ==
    CameraReturned =>
        /\ last.res.searched => scene.cfg.location = {}
        /\ last.res.searched =>
              \E d \in last.res.best_dir :
                  /\ BestScoring(d)
                  /\ \A t \in (IF scene.cfg.target.kind = "list"
                               THEN { scene.cfg.target.xyz } ELSE last.res.look_at) :
                         last.res.location = V3IntAdd(t, V3IntScale(d, scene.cfg.distance))

\* ======================================================================
\* The panel add-on: apply_scene_from_props and the last-good manifest
\* ======================================================================
\* A manifest is the loaded file's content with the panel's values written
\* into it; the panel's values are numbered 1..MaxEdits.
MaxEdits == 2

ManifestOf(objects, values) == [objects |-> objects, values |-> values]
LoadedManifest == ManifestOf("loaded", 0)

\* update_manifest_from_props: the base manifest with the panel's values
update_manifest_from_props(base, props) == ManifestOf(base.objects, props.values)

BuildOutcomes == { "ok", "ReferenceError", "Exception" }
BuildRun(purpose, m, force_reload, outcome) ==
    [purpose |-> purpose, manifest |-> m, force_reload |-> force_reload, outcome |-> outcome]

\* the restore of the except branches: if safe and last_good is not None
RestoreRuns(safe, last_good, o3) ==
    IF safe /\ last_good # {} THEN << BuildRun("restore", Val(last_good), TRUE, o3) >> ELSE << >>

ApplyResult(props, builds, raised, new) == [props |-> props, builds |-> builds, raised |-> raised, new |-> new]

\* mutant of apply_scene_from_props: last_good_manifest_json is written before
\* the build runs
apply_scene_from_props_EagerLastGood(props, safe, o1, o2, o3) ==
    IF ~props.manifest_path THEN ApplyResult(props, << >>, "RuntimeError", {})
    ELSE LET new == update_manifest_from_props(props.raw, props)
             p1 == [props EXCEPT !.raw = new, !.last_good = { new }]
             b1 == BuildRun("apply", new, props.reload_builder_each_apply, o1)
         IN  IF o1 = "ok" THEN ApplyResult([p1 EXCEPT !.last_status = "Applied OK"], << b1 >>, "none", { new })
             ELSE ApplyResult([p1 EXCEPT !.last_status = "Apply FAILED"],
                              << b1 >> \o RestoreRuns(safe, props.last_good, o3), o1, { new })

\* o1, o2, o3: how the first build, the reload retry and the restore end
apply_scene_from_props(props, safe, o1, o2, o3) ==
    IF ~props.manifest_path THEN ApplyResult(props, << >>, "RuntimeError", {})
    ELSE LET new == update_manifest_from_props(props.raw, props)
             p1 == [props EXCEPT !.raw = new]
             last_good == props.last_good
             b1 == BuildRun("apply", new, props.reload_builder_each_apply, o1)
             b2 == BuildRun("retry", new, TRUE, o2)
             restore == RestoreRuns(safe, last_good, o3)
             restored == IF restore = << >> THEN ""
                         ELSE IF o3 = "ok" THEN " (restored last good)" ELSE " (restore failed)"
         IN  CASE o1 = "ok" ->
                    ApplyResult([p1 EXCEPT !.last_good = { p1.raw }, !.last_status = "Applied OK"],
                                << b1 >>, "none", { new })
               [] o1 = "ReferenceError" /\ o2 = "ok" ->
                    ApplyResult([p1 EXCEPT !.last_good = { p1.raw },
                                           !.last_status = "Applied OK (after reload retry)"],
                                << b1, b2 >>, "none", { new })
               [] o1 = "ReferenceError" /\ o2 # "ok" ->
                    ApplyResult([p1 EXCEPT !.last_status = "Apply FAILED after reload retry" \o restored],
                                << b1, b2 >> \o restore, o2, { new })
               [] OTHER ->
                    ApplyResult([p1 EXCEPT !.last_status = "Apply FAILED" \o restored],
                                << b1 >> \o restore, o1, { new })

PanelProps ==
    [ kind : { "props" },
      manifest_path : BOOLEAN,
      values : 1..MaxEdits,
      raw : { LoadedManifest },
      last_good : { {}, { LoadedManifest } },
      reload_builder_each_apply : BOOLEAN,
      last_status : { "" } ]

InitApply ==
    /\ pc = "panel"
    /\ scene \in PanelProps
    /\ used = << >>
    /\ last = NoCall
    /\ manifest = << >>
    /\ placed = << >>
    /\ prev = {}

\* the user changes a value in the panel
EditValues(v) ==
    /\ pc = "panel"
    /\ scene.values # v
    /\ scene' = [scene EXCEPT !.values = v]
    /\ UNCHANGED << used, last, manifest, pc, placed, prev >>

\* one call of apply_scene_from_props, by the operator or the live-update timer
ApplyScene(safe, o1, o2, o3) ==
    /\ pc = "panel"
    /\ LET r == apply_scene_from_props(scene, safe, o1, o2, o3)
       IN  /\ scene' = r.props
           /\ last' = [kind |-> "apply", safe |-> safe, before |-> scene.last_good,
                       new |-> r.new, builds |-> r.builds, raised |-> r.raised]
    /\ UNCHANGED << used, manifest, pc, placed, prev >>

NextApply ==
    \/ \E v \in 1..MaxEdits : EditValues(v)
    \/ \E safe \in BOOLEAN : \E o1, o2, o3 \in BuildOutcomes : ApplyScene(safe, o1, o2, o3)

SpecApply == InitApply /\ [][NextApply]_vars

\* ---- properties of the apply
ApplyReturned == last.kind = "apply" /\ last.builds # << >>

RunsFor(purpose) == { k \in 1..Len(last.builds) : last.builds[k].purpose = purpose }

\* a build of the applied manifest succeeded: the first one, or the forced
\* reload retry after a ReferenceError of the first
BuildSucceeded ==
    \/ /\ last.builds[1].manifest \in last.new
       /\ last.builds[1].outcome = "ok"
    \/ /\ Len(last.builds) >= 2
       /\ last.builds[1].outcome = "ReferenceError"
       /\ last.builds[2].purpose = "retry"
       /\ last.builds[2].manifest \in last.new
       /\ last.builds[2].force_reload
       /\ last.builds[2].outcome = "ok"

\* C28: last_good_manifest_json is overwritten, with the applied manifest,
\* exactly when a build of it succeeded (at once or on the one forced-reload
\* retry after a ReferenceError); when the build finally fails last_good is
\* unchanged, the exception is raised, and the last-good manifest is rebuilt
\* exactly once if safe is true and one exists, not at all otherwise.
C28_LastGood ==
    ApplyReturned =>
        /\ Cardinality(RunsFor("apply")) = 1
        /\ Cardinality(RunsFor("retry")) <= 1
        /\ (RunsFor("retry") # {}) => last.builds[1].outcome = "ReferenceError"
        /\ BuildSucceeded =>
              /\ scene.last_good = last.new
              /\ last.raised = "none"
              /\ RunsFor("restore") = {}
        /\ ~BuildSucceeded =>
              /\ scene.last_good = last.before
              /\ last.raised \in { "ReferenceError", "Exception" }
              /\ Cardinality(RunsFor("restore")) = (IF last.safe /\ last.before # {} THEN 1 ELSE 0)
              /\ \A k \in RunsFor("restore") :
                     /\ last.builds[k].manifest \in last.before
                     /\ k = Len(last.builds)

\* the build raises ReferenceError, the retry fails too, the last-good
\* manifest (an earlier apply's) is rebuilt once and stays
C28_Witness ==
    /\ ApplyReturned
    /\ last.safe
    /\ last.before = { ManifestOf("loaded", 1) }
    /\ last.new = { ManifestOf("loaded", 2) }
    /\ Len(last.builds) = 3
    /\ last.builds[1].outcome = "ReferenceError"
    /\ last.builds[2].outcome = "Exception"
    /\ last.builds[3].purpose = "restore"
    /\ last.builds[3].manifest = ManifestOf("loaded", 1)
    /\ last.raised = "Exception"
    /\ scene.last_good = { ManifestOf("loaded", 1) }

\* ======================================================================
\* The panel add-on: the debounced live update
\* ======================================================================
\* Blender runs property callbacks, operators and timers on one thread: a
\* load runs to its end before a timer can fire.  scene holds the add-on's
\* globals and the panel; timers is the number of registered timers.
MaxValue == 2
MaxBurst == 3

Addon(live, loading, active, timers, values, applied, registered, calls, unapplied) ==
    [ kind |-> "addon", live_update |-> live, IS_LOADING |-> loading,
      UPDATE_TIMER_ACTIVE |-> active, timers |-> timers, values |-> values,
      applied |-> applied, registered |-> registered, calls |-> calls, unapplied |-> unapplied ]

\* _schedule_live_update; calls, registered and unapplied are bookkeeping of
\* the calls and registrations since the last timer fired
schedule_live_update(st) ==
    LET called == [st EXCEPT !.calls = Min2(st.calls + 1, MaxBurst)]
    IN  IF st.IS_LOADING THEN called
        ELSE IF ~st.live_update THEN called
        ELSE IF st.UPDATE_TIMER_ACTIVE THEN [called EXCEPT !.unapplied = TRUE]
        ELSE [called EXCEPT !.UPDATE_TIMER_ACTIVE = TRUE,
                            !.timers = st.timers + 1,
                            !.registered = st.registered + 1,
                            !.unapplied = TRUE]

InitLive ==
    /\ pc = "panel"
    /\ scene \in { Addon(live, FALSE, FALSE, 0, v, 0, 0, 0, FALSE) : live \in BOOLEAN, v \in 1..MaxValue }
    /\ used = << >>
    /\ last = NoCall
    /\ manifest = << >>
    /\ placed = << >>
    /\ prev = {}

\* the user changes a property of the panel: _on_prop_update
PropChange(v) ==
    /\ pc = "panel"
    /\ v # scene.values
    /\ scene' = schedule_live_update([scene EXCEPT !.values = v])
    /\ UNCHANGED << used, last, manifest, pc, placed, prev >>

\* live_update has no update callback
ToggleLiveUpdate ==
    /\ pc = "panel"
    /\ scene' = [scene EXCEPT !.live_update = ~scene.live_update]
    /\ UNCHANGED << used, last, manifest, pc, placed, prev >>

\* load_manifest_into_props: _IS_LOADING = True
LoadBegin ==
    /\ pc = "panel"
    /\ scene' = [scene EXCEPT !.IS_LOADING = TRUE]
    /\ pc' = "loading"
    /\ UNCHANGED << used, last, manifest, placed, prev >>

\* the load assigns a property, whose callback runs
LoadSetProp(v) ==
    /\ pc = "loading"
    /\ v # scene.values
    /\ scene' = schedule_live_update([scene EXCEPT !.values = v])
    /\ UNCHANGED << used, last, manifest, pc, placed, prev >>

\* finally: _IS_LOADING = False
LoadEnd ==
    /\ pc = "loading"
    /\ scene' = [scene EXCEPT !.IS_LOADING = FALSE]
    /\ pc' = "panel"
    /\ UNCHANGED << used, last, manifest, placed, prev >>

\* mutant of TimerFire: the pending flag is not cleared
TimerFire_FlagKept ==
    /\ pc = "panel"
    /\ scene.timers > 0
    /\ scene' = [scene EXCEPT !.timers = scene.timers - 1, !.registered = 0, !.calls = 0]
    /\ pc' = "timer_apply"
    /\ UNCHANGED << used, last, manifest, placed, prev >>

\* the event loop runs the registered _timer: the flag is cleared first
TimerFire ==
    /\ pc = "panel"
    /\ scene.timers > 0
    /\ scene' = [scene EXCEPT !.timers = scene.timers - 1, !.UPDATE_TIMER_ACTIVE = FALSE,
                              !.registered = 0, !.calls = 0]
    /\ pc' = "timer_apply"
    /\ UNCHANGED << used, last, manifest, placed, prev >>

\* _timer goes on: apply_scene_from_props(bpy.context, safe=True), any
\* exception printed; the timer returns None and is not run again
TimerApply ==
    /\ pc = "timer_apply"
    /\ scene' = [scene EXCEPT !.applied = scene.values, !.unapplied = FALSE]
    /\ pc' = "panel"
    /\ UNCHANGED << used, last, manifest, placed, prev >>

NextLive ==
    \/ \E v \in 1..MaxValue : PropChange(v)
    \/ ToggleLiveUpdate
    \/ LoadBegin
    \/ \E v \in 1..MaxValue : LoadSetProp(v)
    \/ LoadEnd
    \/ TimerFire
    \/ TimerApply

\* a registered timer is run once the thread is free, and handlers end
SpecLive ==
    /\ InitLive
    /\ [][NextLive]_vars
    /\ SF_vars(TimerFire)
    /\ WF_vars(TimerApply)
    /\ WF_vars(LoadEnd)

\* ---- properties of the live update
IsAddon == scene.kind = "addon"

OneTimerAtMost ==
    IsAddon =>
        /\ scene.timers <= 1
        /\ scene.registered <= 1
        /\ scene.UPDATE_TIMER_ACTIVE <=> (scene.timers = 1)
        /\ pc = "timer_apply" => ~scene.UPDATE_TIMER_ACTIVE

RegistersOnlyWhenFree ==
    (scene'.timers > scene.timers) =>
        /\ scene.live_update
        /\ ~scene.IS_LOADING
        /\ ~scene.UPDATE_TIMER_ACTIVE
        /\ scene.timers = 0

\* C29: at most one live-update timer is pending; one is registered only with
\* live_update on, no load in progress and none pending; the flag is clear
\* while the timer's apply runs; and every change that asks for a live update
\* is followed by an apply.
C29_OneTimer ==
    /\ []OneTimerAtMost
    /\ [][RegistersOnlyWhenFree]_vars
    /\ ((IsAddon /\ scene.unapplied) ~> (IsAddon /\ ~scene.unapplied))

\* after a first apply, a burst of three changes with one timer registered
C29_Witness ==
    /\ IsAddon
    /\ pc = "panel"
    /\ scene.applied # 0
    /\ scene.calls = 3
    /\ scene.registered = 1
    /\ scene.timers = 1
    /\ scene.unapplied

====
